---- MODULE Spec2Model ----
(***************************************************************************)
(* The scheduling decision of the provisioner: ComputeSchedulingDecision   *)
(* (package provisioning) and the single-pod-per-node scheduler            *)
(* AltScheduler (package scheduling): NewAltScheduler, Solve and add.      *)
(*                                                                         *)
(* The scheduler's collaborators whose code is not part of the sources     *)
(* at hand (Provisioner.NewScheduler, NodeClaim, Topology,                 *)
(* ReservationManager, the resource helpers and Results' truncation) are   *)
(* modelled from the design document; each such definition says so.        *)
(***************************************************************************)
EXTENDS Integers, Sequences, FiniteSets, TLC

(***************************************************************************)
(* Bounds of the model.                                                    *)
(***************************************************************************)
\* The largest number of pods (pending and deleting-node pods together).
MaxPods == 3
\* The largest cpu limit of a node pool.
MaxLimit == 4
\* The largest number of already-running spread pods in one zone.
MaxSeed == 3
\* The largest number of reserved units of the reservation-backed offering.
MaxReserved == 1
\* The largest number of Solve calls on one scheduler.
MaxSolveCalls == 2
\* The largest number of goroutines that call a tracked method of a mock.
MaxGoroutines == 3
\* The largest number of events passed to one call of MockRecorder.Publish.
MaxEvents == 2
\* The largest number of Start and Stop calls on one SnapshotCollector.
MaxCollectorCalls == 4
\* The largest number of ticks of the tickers of one SnapshotCollector.
MaxTicks == 2

(***************************************************************************)
(* Resources, zones and the instance-type catalog.                         *)
(***************************************************************************)
Dims == {"cpu", "memory"}

\* The topology domains, in the lexicographic order of their names.
ZoneOrder == <<"a", "b">>

Zones == {ZoneOrder[i] : i \in 1..Len(ZoneOrder)}

ZoneIndex(z) == CHOOSE i \in 1..Len(ZoneOrder) : ZoneOrder[i] = z

\* The catalog the cloud provider offers to every node pool: capacity, the
\* zone of the offering, its price and whether it is reservation-backed.
InstanceTypes ==
    [it \in {"m", "s", "r"} |->
        CASE it = "m" -> [Capacity |-> [cpu |-> 2, memory |-> 2], Zone |-> "b",
                          Price |-> 3, Reserved |-> FALSE]
          [] it = "s" -> [Capacity |-> [cpu |-> 1, memory |-> 2], Zone |-> "a",
                          Price |-> 2, Reserved |-> FALSE]
          [] it = "r" -> [Capacity |-> [cpu |-> 2, memory |-> 1], Zone |-> "a",
                          Price |-> 1, Reserved |-> TRUE]]

\* instanceTypes[np.Name]: the catalog in the order the provider lists it.
CatalogOrder == <<"m", "s", "r">>

\* The maximum skew of the spread constraint the spread pods share.
SpreadMaxSkew == 1

\* scheduling.MaxInstanceTypes, the cap on a claim's exposed instance types
\* (scaled to the three instance types of the catalog).
MaxInstanceTypes == 2

\* A ResourceList with no entry (a node pool without limits).
EmptyResourceList == [d \in {} |-> 0]

ZeroResources == [d \in Dims |-> 0]

\* The daemonset pods: one daemon that only runs on the nodes of pool p2.
DaemonSetPods ==
    <<[requests |-> [cpu |-> 1, memory |-> 0], ports |-> {}, nodePools |-> {"p2"}]>>

(***************************************************************************)
(* Errors.  An error of add is the list of its causes (multierr); the      *)
(* empty list is the nil error.                                            *)
(***************************************************************************)
NilErrs == <<>>

LimitExceededErr(pool) == [kind |-> "LimitExceeded", pool |-> pool]

IncompatibleErr(pool, overhead) ==
    [kind |-> "Incompatible", pool |-> pool, overhead |-> overhead]

\* The error of Add is formatted into the message and not wrapped: what is
\* appended is no reserved-offering error any more.
ReservedOfferingErr_NotWrapped(pool) == [kind |-> "Formatted", pool |-> pool]

\* fmt.Errorf("compatible with nodepool %q but failed to add pod ..., %w")
ReservedOfferingErr(pool) == [kind |-> "ReservedOffering", pool |-> pool]

\* The error keeps its latest cause only.
multierrAppend_KeepsLast(errs, err) == <<err>>

\* multierr.Append(errs, err)
multierrAppend(errs, err) == Append(errs, err)

(***************************************************************************)
(* Sequences and resource lists.                                           *)
(***************************************************************************)
Range(seq) == {seq[i] : i \in 1..Len(seq)}

MaxOf(S) == CHOOSE x \in S : \A y \in S : y <= x

MinOf(S) == CHOOSE x \in S : \A y \in S : x <= y

\* resources.Merge: the sum of two resource lists over every dimension.
Merge(a, b) == [d \in Dims |-> a[d] + b[d]]

\* resources.Fits: the requests fit the capacity on every dimension.
Fits(requests, capacity) == \A d \in Dims : requests[d] <= capacity[d]

\* filterByRemainingResources: the instance types whose capacity does not
\* exceed the remaining resources of the pool on any limited dimension.
filterByRemainingResources(instanceTypes, remaining) ==
    SelectSeq(instanceTypes,
              LAMBDA it : \A d \in DOMAIN remaining :
                              InstanceTypes[it].Capacity[d] <= remaining[d])

\* subtractMax: the remaining resources less, on each limited dimension, the
\* largest capacity among the instance types.
subtractMax(remaining, instanceTypes) ==
    IF Len(instanceTypes) = 0
    THEN remaining
    ELSE [d \in DOMAIN remaining |->
            remaining[d]
            - MaxOf({InstanceTypes[it].Capacity[d] : it \in Range(instanceTypes)})]

\* filterInstanceTypesByRequirements with no requests: the instance types
\* whose zone the requirements of the node pool allow.
filterInstanceTypesByRequirements(instanceTypes, requirements) ==
    SelectSeq(instanceTypes, LAMBDA it : InstanceTypes[it].Zone \in requirements)

(***************************************************************************)
(* TopologyTracker (design document, 4.2): the per-zone counts of the pods *)
(* that match the spread constraint, over the zones that are eligible.     *)
(***************************************************************************)
\* The lowest count among the domains of the tracker.
domainMinCount(topology) == MinOf({topology.counts[z] : z \in topology.domains})

\* A tracker that forgets the skew: every domain is compatible.
domainCompatible_IgnoreSkew(topology, z) == z \in topology.domains

\* "Is assigning one more matching pod to zone z compatible with the spread
\* constraint, given the current counts?"
domainCompatible(topology, z) ==
    /\ z \in topology.domains
    /\ topology.counts[z] + 1 - domainMinCount(topology) <= topology.maxSkew

\* Among the compatible zones the lexicographically first, whatever the
\* counts.
nextDomain_FirstByName(topology, zones) ==
    LET ok == {z \in zones :
                /\ z \in topology.domains
                /\ topology.counts[z] + 1
                       - MinOf({topology.counts[y] : y \in topology.domains})
                   <= topology.maxSkew}
    IN  IF ok = {}
        THEN ""
        ELSE CHOOSE z \in ok : \A y \in ok : ZoneIndex(z) <= ZoneIndex(y)

\* Tie-break: among the compatible zones the one with the lowest count and,
\* on an exact tie, the lexicographically first.
nextDomain(topology, zones) ==
    LET ok == {z \in zones : domainCompatible(topology, z)}
    IN  IF ok = {}
        THEN ""
        ELSE CHOOSE z \in ok :
                \A y \in ok :
                    \/ topology.counts[z] < topology.counts[y]
                    \/ /\ topology.counts[z] = topology.counts[y]
                       /\ ZoneIndex(z) <= ZoneIndex(y)

\* "Record the assignment of a pod to zone z."
topologyRecord(topology, z) ==
    [topology EXCEPT !.counts[z] = @ + 1]

\* The rollback of a tentative assignment to zone z.
topologyUnrecord(topology, z) ==
    [topology EXCEPT !.counts[z] = @ - 1]

(***************************************************************************)
(* ReservationManager (design document, 4.3): the remaining units of each  *)
(* reservation-backed instance type.                                       *)
(***************************************************************************)
ReservedTypes == {it \in DOMAIN InstanceTypes : InstanceTypes[it].Reserved}

NewReservationManager(reservedCapacity) ==
    [it \in ReservedTypes |-> reservedCapacity]

\* TryReserve grants a reserved offering whether a unit is left or not.
CanReserve_Always(rm, it) == it \in ReservedTypes

\* TryReserve grants an offering only while units remain.
CanReserve(rm, it) == it \in ReservedTypes /\ rm[it] > 0

Reserve(rm, its) == [it \in ReservedTypes |-> IF it \in its THEN rm[it] - 1 ELSE rm[it]]

Release(rm, its) == [it \in ReservedTypes |-> IF it \in its THEN rm[it] + 1 ELSE rm[it]]

(***************************************************************************)
(* NodeClaimTemplate and NodeClaim (design document, 4.4 and 4.5).         *)
(***************************************************************************)
NewNodeClaimTemplate(np) ==
    [NodePoolName |-> np.Name,
     Requirements |-> np.Requirements,
     InstanceTypeOptions |-> <<>>]

\* getDaemonOverhead: per template, the requests of the daemons that run on
\* the nodes of its pool.
RECURSIVE SumRequests(_, _)
SumRequests(daemons, pool) ==
    IF daemons = <<>>
    THEN ZeroResources
    ELSE Merge(IF pool \in Head(daemons).nodePools
               THEN Head(daemons).requests
               ELSE ZeroResources,
               SumRequests(Tail(daemons), pool))

getDaemonOverhead(templates, daemonSetPods) ==
    [p \in {templates[i].NodePoolName : i \in 1..Len(templates)} |->
        SumRequests(daemonSetPods, p)]

\* getDaemonHostPortUsage: per template, the host ports the daemons of its
\* pool hold on every node.
getDaemonHostPortUsage(templates, daemonSetPods) ==
    [p \in {templates[i].NodePoolName : i \in 1..Len(templates)} |->
        UNION {daemonSetPods[i].ports :
                i \in {k \in 1..Len(daemonSetPods) : p \in daemonSetPods[k].nodePools}}]

NewNodeClaim(nodeClaimTemplate, daemonResources, daemonHostPortUsage, instanceTypes) ==
    [NodePoolName |-> nodeClaimTemplate.NodePoolName,
     InstanceTypeOptions |-> instanceTypes,
     Pods |-> <<>>,
     requests |-> daemonResources,
     hostPorts |-> daemonHostPortUsage,
     domain |-> "",
     reserved |-> {},
     finalized |-> FALSE]

\* Step 2 of Add: the options that still hold the accumulated requests.
fittingOptions(options, requests) ==
    SelectSeq(options, LAMBDA it : Fits(requests, InstanceTypes[it].Capacity))

\* Step 2 of Add: a host port of the pod is already held on the claim, by a
\* pod placed before or by a daemon.
hostPortConflict(hostPorts, pod) == hostPorts \cap pod.ports # {}

\* The error is returned and the options of the claim are left emptied.
addFailed_OptionsEmptied(err, nc, topology, rm) ==
    [err |-> err, nodeClaim |-> [nc EXCEPT !.InstanceTypeOptions = <<>>],
     topology |-> topology, reservationManager |-> rm]

\* Step 5 of Add: the error is returned and the claim, the topology and the
\* reservations are left as they were.
addFailed(err, nc, topology, rm) ==
    [err |-> err, nodeClaim |-> nc, topology |-> topology,
     reservationManager |-> rm]

\* Step 3 of Add: the options the reserved-offering mode leaves.
\*   Disabled   - the reservation state is ignored;
\*   BestEffort - reserved options with no unit left are dropped (the
\*                on-demand options remain);
\*   Strict     - only reserved options with a unit left are accepted.
reservableOptions(options, rm, mode) ==
    CASE mode = "Disabled" -> options
      [] mode = "BestEffort" ->
            SelectSeq(options, LAMBDA it : it \in ReservedTypes => CanReserve(rm, it))
      [] mode = "Strict" -> SelectSeq(options, LAMBDA it : CanReserve(rm, it))

\* Strict mode, a compatible reserved offering exists and none has a unit
\* left: the distinguished reserved-offering error.
reservedOfferingExhausted(options, rm, mode) ==
    /\ mode = "Strict"
    /\ \E it \in Range(options) : it \in ReservedTypes
    /\ \A it \in Range(options) : ~CanReserve(rm, it)

\* NodeClaim.Add: fails and leaves everything as it was, or commits the
\* narrowed options, the pod, the topology count and the reservations.
NodeClaimAdd(nc, pod, podData, topology, rm, mode) ==
    LET requests == Merge(nc.requests, podData.Requests)
        fitting == IF hostPortConflict(nc.hostPorts, pod)
                   THEN <<>>
                   ELSE fittingOptions(nc.InstanceTypeOptions, requests)
        reservable == reservableOptions(fitting, rm, mode)
        domain == IF pod.spread
                  THEN nextDomain(topology,
                                  {InstanceTypes[it].Zone : it \in Range(reservable)})
                  ELSE ""
        remaining == IF pod.spread
                     THEN SelectSeq(reservable,
                                    LAMBDA it : InstanceTypes[it].Zone = domain)
                     ELSE reservable
        toReserve == IF mode = "Disabled"
                     THEN {}
                     ELSE Range(remaining) \cap ReservedTypes
    IN  IF reservedOfferingExhausted(fitting, rm, mode)
        THEN addFailed("ReservedOffering", nc, topology, rm)
        ELSE IF Len(remaining) = 0
        THEN addFailed("Incompatible", nc, topology, rm)
        ELSE [err |-> "nil",
              nodeClaim |-> [nc EXCEPT !.InstanceTypeOptions = remaining,
                                       !.Pods = Append(@, pod.uid),
                                       !.requests = requests,
                                       !.hostPorts = @ \cup pod.ports,
                                       !.domain = domain,
                                       !.reserved = toReserve],
              topology |-> IF pod.spread
                           THEN topologyRecord(topology, domain)
                           ELSE topology,
              reservationManager |-> Reserve(rm, toReserve)]

\* Destroy takes a pod off the count of the zone of the claim's first
\* option although the claim recorded none.
NodeClaimDestroy_UnrecordsUnassigned(nc, topology, rm) ==
    [topology |-> IF nc.domain = ""
                  THEN IF nc.InstanceTypeOptions = <<>>
                       THEN topology
                       ELSE topologyUnrecord(topology,
                                             InstanceTypes[nc.InstanceTypeOptions[1]].Zone)
                  ELSE topologyUnrecord(topology, nc.domain),
     reservationManager |-> Release(rm, nc.reserved)]

\* NodeClaim.Destroy: the topology counts and the reservations the claim
\* holds are given back.
NodeClaimDestroy(nc, topology, rm) ==
    [topology |-> IF nc.domain = ""
                  THEN topology
                  ELSE topologyUnrecord(topology, nc.domain),
     reservationManager |-> Release(rm, nc.reserved)]

\* The instance types ordered by price, the cheapest first (an insertion
\* sort; equal prices keep their order).
RECURSIVE InsertByPrice(_, _)
InsertByPrice(sorted, it) ==
    IF sorted = <<>>
    THEN <<it>>
    ELSE IF InstanceTypes[it].Price < InstanceTypes[Head(sorted)].Price
    THEN <<it>> \o sorted
    ELSE <<Head(sorted)>> \o InsertByPrice(Tail(sorted), it)

RECURSIVE OrderByPrice(_)
OrderByPrice(instanceTypes) ==
    IF instanceTypes = <<>>
    THEN <<>>
    ELSE InsertByPrice(OrderByPrice(SubSeq(instanceTypes, 1, Len(instanceTypes) - 1)),
                       instanceTypes[Len(instanceTypes)])

\* FinalizeScheduling is not called: the claim stays as the loop left it.
FinalizeScheduling_Skipped(nc) == nc

\* NodeClaim.FinalizeScheduling: once every pod of the claim is known, the
\* remaining options are ordered by cost.
FinalizeScheduling(nc) ==
    [nc EXCEPT !.InstanceTypeOptions = OrderByPrice(@), !.finalized = TRUE]

\* Results.TruncateInstanceTypes: each claim exposes the leading
\* maxInstanceTypes of its options.
TruncateInstanceTypes(results, maxInstanceTypes) ==
    [results EXCEPT !.NewNodeClaims =
        [i \in 1..Len(@) |->
            [@[i] EXCEPT !.InstanceTypeOptions =
                SubSeq(@, 1, IF Len(@) < maxInstanceTypes
                             THEN Len(@)
                             ELSE maxInstanceTypes)]]]

(***************************************************************************)
(* The state.                                                              *)
(***************************************************************************)
VARIABLES
    cluster,      \* the node pools, the running spread pods, the reserved units
    input,        \* the SchedulingInput
    caller,       \* "ComputeSchedulingDecision", or "Solve" called on its own
    pc,           \* "idle", "loop", "finalize", "solved", "done"
    ctxErr,       \* ctx.Err(): "nil", "DeadlineExceeded" or "Canceled"
    s,            \* the AltScheduler
    q,            \* Solve's queue of pods
    podErrors,    \* Solve's podErrors: pod uid -> error
    popped,       \* the uids of the pods popped so far, in order
    solveCalls,   \* how many times Solve was entered
    results,      \* what Solve returned
    solveErr,     \* the error Solve returned
    decision,     \* what ComputeSchedulingDecision returned
    decisionErr,  \* the error ComputeSchedulingDecision returned
    unschedulablePodsCount,  \* the gauge UnschedulablePodsCount
    other,        \* a second invocation, on a scheduler and a snapshot of its own
    addCall,      \* a call of NodeClaim.Add: its arguments and what it returned
    mock,         \* a test mock and the goroutines that call it
    collector     \* a SnapshotCollector, its callers and its goroutines

vars == <<cluster, input, caller, pc, ctxErr, s, q, podErrors, popped,
          solveCalls, results, solveErr, decision, decisionErr,
          unschedulablePodsCount, other, addCall, mock, collector>>

(***************************************************************************)
(* NewAltScheduler and the scheduler construction of the provisioner.      *)
(***************************************************************************)
\* The concurrency hint read as the switch of the reserved-offering mode.
optionResolve_HintSetsMode(opts) ==
    [reservedOfferingMode |-> IF opts.numConcurrentReconciles > 1
                              THEN "Disabled"
                              ELSE opts.reservedOfferingMode]

\* The options are not read: the scheduler ignores the reservations.
optionResolve_NotRead(opts) == [reservedOfferingMode |-> "Disabled"]

\* option.Resolve(opts...): of the options the scheduler keeps the
\* reserved-offering mode; the concurrency hint is not read.
optionResolve(opts) == [reservedOfferingMode |-> opts.reservedOfferingMode]

\* The templates in the reverse of the order of the node pools.
RECURSIVE nodeClaimTemplatesOf_Reversed(_, _)
nodeClaimTemplatesOf_Reversed(nodePools, instanceTypes) ==
    IF nodePools = <<>>
    THEN <<>>
    ELSE LET np == Head(nodePools)
             nct == NewNodeClaimTemplate(np)
             options == filterInstanceTypesByRequirements(instanceTypes[np.Name],
                                                          nct.Requirements)
             rest == nodeClaimTemplatesOf_Reversed(Tail(nodePools), instanceTypes)
         IN  IF Len(options) = 0
             THEN rest
             ELSE rest \o <<[nct EXCEPT !.InstanceTypeOptions = options]>>

\* The templates of the node pools whose requirements leave an instance type,
\* in the order of the node pools.
RECURSIVE nodeClaimTemplatesOf(_, _)
nodeClaimTemplatesOf(nodePools, instanceTypes) ==
    IF nodePools = <<>>
    THEN <<>>
    ELSE LET np == Head(nodePools)
             nct == NewNodeClaimTemplate(np)
             options == filterInstanceTypesByRequirements(instanceTypes[np.Name],
                                                          nct.Requirements)
             rest == nodeClaimTemplatesOf(Tail(nodePools), instanceTypes)
         IN  IF Len(options) = 0
             THEN rest
             ELSE <<[nct EXCEPT !.InstanceTypeOptions = options]>> \o rest

NewAltScheduler(nodePools, topology, instanceTypes, reservedCapacity, daemonSetPods, opts) ==
    LET templates == nodeClaimTemplatesOf(nodePools, instanceTypes)
    IN  [uuid |-> 0,
         nodeClaimTemplates |-> templates,
         topology |-> topology,
         daemonOverhead |-> getDaemonOverhead(templates, daemonSetPods),
         daemonHostPortUsage |-> getDaemonHostPortUsage(templates, daemonSetPods),
         cachedPodData |-> <<>>,
         remainingResources |->
             [name \in {nodePools[i].Name : i \in 1..Len(nodePools)} |->
                 (CHOOSE np \in Range(nodePools) : np.Name = name).Limits],
         reservationManager |-> NewReservationManager(reservedCapacity),
         reservedOfferingMode |-> optionResolve(opts).reservedOfferingMode,
         newNodeClaims |-> <<>>,
         existingNodes |-> <<>>]

\* The scheduler before any is constructed.
NoScheduler ==
    [uuid |-> 0,
     nodeClaimTemplates |-> <<>>,
     topology |-> [counts |-> [z \in Zones |-> 0], domains |-> {},
                   maxSkew |-> SpreadMaxSkew],
     daemonOverhead |-> <<>>,
     daemonHostPortUsage |-> <<>>,
     cachedPodData |-> <<>>,
     remainingResources |-> <<>>,
     reservationManager |-> NewReservationManager(0),
     reservedOfferingMode |-> "Disabled",
     newNodeClaims |-> <<>>,
     existingNodes |-> <<>>]

\* The node pools in the order of their weight, the highest first; pools of
\* the same weight keep their order (an insertion sort).
RECURSIVE InsertByWeight(_, _)
InsertByWeight(sorted, np) ==
    IF sorted = <<>>
    THEN <<np>>
    ELSE IF np.Weight > Head(sorted).Weight
    THEN <<np>> \o sorted
    ELSE <<Head(sorted)>> \o InsertByWeight(Tail(sorted), np)

RECURSIVE OrderByWeight(_)
OrderByWeight(nodePools) ==
    IF nodePools = <<>>
    THEN <<>>
    ELSE InsertByWeight(OrderByWeight(SubSeq(nodePools, 1, Len(nodePools) - 1)),
                        nodePools[Len(nodePools)])

\* The catalog of every node pool.
instanceTypesOf(nodePools) ==
    [name \in {nodePools[i].Name : i \in 1..Len(nodePools)} |-> CatalogOrder]

\* The topology the scheduler is given: the counts of the running pods,
\* over the zones the eligible pools offer and the zones that hold a pod.
NewTopology(nodePools, seed) ==
    LET templates == nodeClaimTemplatesOf(nodePools, instanceTypesOf(nodePools))
    IN  [counts |-> seed,
         domains |->
            {InstanceTypes[it].Zone :
                it \in UNION {Range(templates[i].InstanceTypeOptions) :
                                i \in 1..Len(templates)}}
            \cup {z \in Zones : seed[z] > 0},
         maxSkew |-> SpreadMaxSkew]

\* Provisioner.NewScheduler fails with ErrNodePoolsNotFound when no node pool
\* is eligible.
NodePoolsNotFound(nodePools) ==
    Len(nodeClaimTemplatesOf(nodePools, instanceTypesOf(nodePools))) = 0

(***************************************************************************)
(* AltScheduler.add                                                        *)
(***************************************************************************)
\* The limit filter left out: every option of the template passes.
limitedInstanceTypes_Unfiltered(nodeClaimTemplate, remainingResources) ==
    nodeClaimTemplate.InstanceTypeOptions

\* A pool without limits taken for a pool with nothing left.
limitedInstanceTypes_NoLimitsIsNothing(nodeClaimTemplate, remainingResources) ==
    IF /\ nodeClaimTemplate.NodePoolName \in DOMAIN remainingResources
       /\ DOMAIN remainingResources[nodeClaimTemplate.NodePoolName] # {}
    THEN filterByRemainingResources(
             nodeClaimTemplate.InstanceTypeOptions,
             remainingResources[nodeClaimTemplate.NodePoolName])
    ELSE <<>>

\* The instance types of a template that the remaining resources of its pool
\* still allow.
limitedInstanceTypes(nodeClaimTemplate, remainingResources) ==
    IF nodeClaimTemplate.NodePoolName \in DOMAIN remainingResources
    THEN filterByRemainingResources(
             nodeClaimTemplate.InstanceTypeOptions,
             remainingResources[nodeClaimTemplate.NodePoolName])
    ELSE nodeClaimTemplate.InstanceTypeOptions

\* The claim that accepted the pod is not kept.
commitNodeClaim_DropsClaim(sched, nodeClaim) == sched

\* The largest capacity is added to the remaining resources.
commitNodeClaim_AddsBack(sched, nodeClaim) ==
    [sched EXCEPT
        !.newNodeClaims = Append(@, nodeClaim),
        !.remainingResources[nodeClaim.NodePoolName] =
            [d \in DOMAIN @ |->
                2 * @[d] - subtractMax(@, nodeClaim.InstanceTypeOptions)[d]]]

\* The largest capacity is taken over the options of the template, not over
\* those Add left to the claim.
commitNodeClaim_TemplateOptions(sched, nodeClaim) ==
    [sched EXCEPT
        !.newNodeClaims = Append(@, nodeClaim),
        !.remainingResources[nodeClaim.NodePoolName] =
            subtractMax(@, (CHOOSE t \in Range(sched.nodeClaimTemplates) :
                                t.NodePoolName = nodeClaim.NodePoolName).InstanceTypeOptions)]

\* What is taken from the pool of the claim is given to every other pool.
commitNodeClaim_MovesBudget(sched, nodeClaim) ==
    [sched EXCEPT
        !.newNodeClaims = Append(@, nodeClaim),
        !.remainingResources =
            [pool \in DOMAIN @ |->
                IF pool = nodeClaim.NodePoolName
                THEN subtractMax(@[pool], nodeClaim.InstanceTypeOptions)
                ELSE [d \in DOMAIN @[pool] |->
                        @[pool][d]
                        + MaxOf({InstanceTypes[it].Capacity[d] :
                                    it \in Range(nodeClaim.InstanceTypeOptions)})]]]

\* The pod is packed onto the claim created last, when there is one.
commitNodeClaim_PacksLast(sched, nodeClaim) ==
    IF sched.newNodeClaims = <<>>
    THEN [sched EXCEPT
            !.newNodeClaims = Append(@, nodeClaim),
            !.remainingResources[nodeClaim.NodePoolName] =
                subtractMax(@, nodeClaim.InstanceTypeOptions)]
    ELSE [sched EXCEPT
            !.newNodeClaims[Len(sched.newNodeClaims)].Pods = @ \o nodeClaim.Pods]

\* The claim joins newNodeClaims and the remaining resources stay as they are.
commitNodeClaim_NoSubtract(sched, nodeClaim) ==
    [sched EXCEPT !.newNodeClaims = Append(@, nodeClaim)]

\* The claim is launched: it joins newNodeClaims and its largest possible
\* resource usage is taken from the remaining resources of its pool.
commitNodeClaim(sched, nodeClaim) ==
    [sched EXCEPT
        !.newNodeClaims = Append(@, nodeClaim),
        !.remainingResources[nodeClaim.NodePoolName] =
            subtractMax(@, nodeClaim.InstanceTypeOptions)]

\* add from template i on, with the errors of the templates before it.
RECURSIVE add(_, _, _, _)
add(sched, pod, i, errs) ==
    IF i > Len(sched.nodeClaimTemplates)
    THEN [s |-> sched, err |-> errs]
    ELSE
    LET nodeClaimTemplate == sched.nodeClaimTemplates[i]
        pool == nodeClaimTemplate.NodePoolName
        instanceTypes == limitedInstanceTypes(nodeClaimTemplate,
                                              sched.remainingResources)
        nodeClaim == NewNodeClaim(nodeClaimTemplate, sched.daemonOverhead[pool],
                                  sched.daemonHostPortUsage[pool], instanceTypes)
        added == NodeClaimAdd(nodeClaim, pod, sched.cachedPodData[pod.uid],
                              sched.topology, sched.reservationManager,
                              sched.reservedOfferingMode)
        destroyed == NodeClaimDestroy(added.nodeClaim, added.topology,
                                      added.reservationManager)
        afterDestroy == [sched EXCEPT
                            !.topology = destroyed.topology,
                            !.reservationManager = destroyed.reservationManager]
        afterAdd == [sched EXCEPT
                        !.topology = added.topology,
                        !.reservationManager = added.reservationManager]
    IN  IF /\ pool \in DOMAIN sched.remainingResources
           /\ Len(instanceTypes) = 0
        THEN add(sched, pod, i + 1, multierrAppend(errs, LimitExceededErr(pool)))
        ELSE IF added.err = "ReservedOffering"
        THEN [s |-> afterDestroy,
              err |-> multierrAppend(errs, ReservedOfferingErr(pool))]
        ELSE IF added.err # "nil"
        THEN add(afterDestroy, pod, i + 1,
                 multierrAppend(errs,
                                IncompatibleErr(pool, sched.daemonOverhead[pool])))
        ELSE [s |-> commitNodeClaim(afterAdd, added.nodeClaim), err |-> NilErrs]

(***************************************************************************)
(* AltScheduler.Solve                                                      *)
(***************************************************************************)
\* updateCachedPodData for every pod: the requests, computed once.
cachedPodDataOf(pods) ==
    [uid \in {pods[i].uid : i \in 1..Len(pods)} |->
        [Requests |-> (CHOOSE p \in Range(pods) : p.uid = uid).requests]]

\* The queue hands out the pods from the last to the first.
NewQueue_Reversed(pods, podData) ==
    [i \in 1..Len(pods) |-> pods[Len(pods) + 1 - i]]

\* NewQueue(pods, s.cachedPodData): the queue of every pod, in the order of
\* the input (no sort policy is configured).
NewQueue(pods, podData) == pods

\* The pod is handed out and stays in the queue.
Pop_PutsBack(queue) ==
    IF queue = <<>>
    THEN [ok |-> FALSE, queue |-> queue]
    ELSE [ok |-> TRUE, pod |-> Head(queue), queue |-> queue]

\* q.Pop(): the next pod and true, or false when the queue is empty.
Pop(queue) ==
    IF queue = <<>>
    THEN [ok |-> FALSE, queue |-> queue]
    ELSE [ok |-> TRUE, pod |-> Head(queue), queue |-> Tail(queue)]

\* podErrors[pod] = err, when add failed.
recordPodError(errors, pod, err) ==
    IF err # NilErrs
    THEN (pod.uid :> err) @@ errors
    ELSE errors

\* The loop left at the first pod add fails for.
pcAfterAdd_AbortOnError(err) == IF err # NilErrs THEN "finalize" ELSE "loop"

\* After a pod the loop goes on, whether add failed or not.
pcAfterAdd(err) == "loop"

\* The error Solve returns.
solveError(err) == err

NoResults == [NewNodeClaims |-> <<>>, ExistingNodes |-> <<>>, PodErrors |-> <<>>]

(***************************************************************************)
(* ComputeSchedulingDecision                                               *)
(***************************************************************************)
NilDecision ==
    [nil |-> TRUE, Results |-> NoResults, NoNodePoolsFound |-> FALSE,
     AllPods |-> <<>>]

Decision(res, noNodePoolsFound, pods) ==
    [nil |-> FALSE, Results |-> res, NoNodePoolsFound |-> noNodePoolsFound,
     AllPods |-> pods]

\* pods := append(input.PendingPods, input.DeletingNodePods...)
\* The pods of the deleting nodes forgotten.
allPods_PendingOnly(in) == in.PendingPods

allPods(in) == in.PendingPods \o in.DeletingNodePods

\* Every failure of NewScheduler returned as an error.
schedulerErrorDecision_AlwaysError(err, pods) ==
    [decision |-> NilDecision, err |-> "creating scheduler"]

\* What is returned when the scheduler could not be created.
schedulerErrorDecision(err, pods) ==
    IF err = "ErrNodePoolsNotFound"
    THEN [decision |-> Decision(NoResults, TRUE, pods), err |-> "nil"]
    ELSE [decision |-> NilDecision, err |-> "creating scheduler"]

\* Every error of Solve is returned, the deadline's too.
solveErrorIgnored_OnlyNil(err) == err = "nil"

\* Solve's error is ignored when it is nil or the deadline's.
solveErrorIgnored(err) == err = "nil" \/ err = "DeadlineExceeded"

\* The results handed on as Solve returned them.
postProcess_NoTruncate(res) == res

\* Post-processing of the results.
postProcess(res) == TruncateInstanceTypes(res, MaxInstanceTypes)

\* The early return left out.
nothingToSchedule_Never(pods) == FALSE

\* len(pods) == 0: nothing to schedule.
nothingToSchedule(pods) == Len(pods) = 0

\* The results handed back together with Solve's error.
solveDecision_ResultsWithError(res, err, pods) ==
    [decision |-> Decision(postProcess(res), FALSE, pods),
     err |-> IF solveErrorIgnored(err) THEN "nil" ELSE err]

\* What is returned after Solve.
solveDecision(res, err, pods) ==
    IF ~solveErrorIgnored(err)
    THEN [decision |-> NilDecision, err |-> err]
    ELSE [decision |-> Decision(postProcess(res), FALSE, pods), err |-> "nil"]

(***************************************************************************)
(* handleSchedulingDecision                                                *)
(***************************************************************************)
\* IsReservedOfferingError on the error of a pod: one of its causes is a
\* reserved-offering error.
IsReservedOfferingError(err) ==
    \E i \in 1..Len(err) : err[i].kind = "ReservedOffering"

\* Results.ReservedOfferingErrors: the entries of PodErrors that are
\* reserved-offering errors.
ReservedOfferingErrors(res) ==
    {uid \in DOMAIN res.PodErrors : IsReservedOfferingError(res.PodErrors[uid])}

\* Every entry of PodErrors counted.
unschedulablePodsCountOf_AllErrors(res) == Cardinality(DOMAIN res.PodErrors)

\* The value UnschedulablePodsCount is set to.
unschedulablePodsCountOf(res) ==
    Cardinality(DOMAIN res.PodErrors) - Cardinality(ReservedOfferingErrors(res))

(***************************************************************************)
(* The inputs.                                                             *)
(***************************************************************************)
PodShapes ==
    {[requests |-> [cpu |-> 1, memory |-> 1], spread |-> FALSE, ports |-> {}],
     [requests |-> [cpu |-> 1, memory |-> 1], spread |-> TRUE, ports |-> {}],
     [requests |-> [cpu |-> 2, memory |-> 1], spread |-> FALSE, ports |-> {}]}

\* The pods of the given shapes, with the uids after offset.
MakePods(shapes, offset) ==
    [i \in 1..Len(shapes) |->
        [uid |-> offset + i, requests |-> shapes[i].requests,
         spread |-> shapes[i].spread, ports |-> shapes[i].ports]]

ShapeLists(n) == UNION {[1..k -> PodShapes] : k \in 0..n}

\* The pods of a deleting node: none, or one small pod.
DeletingShapeLists ==
    {<<>>,
     <<[requests |-> [cpu |-> 1, memory |-> 1], spread |-> FALSE, ports |-> {}]>>}

LimitChoices ==
    {EmptyResourceList}
    \cup {("cpu" :> c) : c \in 0..MaxLimit}
    \cup {("cpu" :> MaxLimit) @@ ("memory" :> 3)}

\* The zones the requirements of a pool allow; the empty set allows none.
RequirementChoices == {Zones, {"a"}, {}}

\* Pool p1 has the higher weight of the two pools.
P1(limits, requirements) ==
    [Name |-> "p1", Weight |-> 2, Limits |-> limits, Requirements |-> requirements]

P2 == [Name |-> "p2", Weight |-> 1, Limits |-> ("cpu" :> 2), Requirements |-> Zones]

NoSeed == [z \in Zones |-> 0]

SeedChoices ==
    {NoSeed,
     [z \in Zones |-> IF z = "a" THEN 1 ELSE 0],
     [z \in Zones |-> IF z = "b" THEN MaxSeed ELSE 0]}

ReservedOfferingModes == {"Strict", "BestEffort", "Disabled"}

Scenario(nodePools, seed, reservedCapacity, mode) ==
    [nodePools |-> nodePools, topologySeed |-> seed,
     reservedCapacity |-> reservedCapacity, reservedOfferingMode |-> mode]

\* Pools of every limit and requirement, alone or before pool p2.
LimitScenarios ==
    {Scenario(<<>>, NoSeed, MaxReserved, "Disabled")}
    \cup {Scenario(<<P1(l, r)>> \o tail, NoSeed, MaxReserved, "Disabled") :
            l \in LimitChoices, r \in RequirementChoices, tail \in {<<>>, <<P2>>}}

\* Clusters that already run spread pods.
SpreadScenarios ==
    {Scenario(<<P1(EmptyResourceList, r)>>, seed, MaxReserved, "Disabled") :
        r \in {Zones, {"a"}}, seed \in SeedChoices}

\* Every reserved-offering mode and reserved capacity.
ReservedScenarios ==
    {Scenario(<<P1(l, Zones)>> \o tail, NoSeed, n, mode) :
        l \in {EmptyResourceList, ("cpu" :> 2)}, tail \in {<<>>, <<P2>>},
        n \in 0..MaxReserved, mode \in ReservedOfferingModes}

Scenarios == LimitScenarios \cup SpreadScenarios \cup ReservedScenarios

\* Pool p2 with a weight above that of p1.
HeavyP2 == [P2 EXCEPT !.Weight = 3]

\* Two pools listed in and out of the order of their weights, with limits on
\* one or two dimensions, under every reserved-offering mode and reserved
\* capacity; the clusters that already run spread pods; and a pool confined
\* to the zone that runs a spread pod, with a pool that offers both zones.
PlacementScenarios ==
    {Scenario(pools, NoSeed, n, mode) :
        pools \in UNION {{<<P1(l, Zones), P2>>, <<P2, P1(l, Zones)>>,
                          <<P1(l, Zones), HeavyP2>>} :
                            l \in {("cpu" :> 2), ("cpu" :> MaxLimit) @@ ("memory" :> 3)}},
        n \in 0..MaxReserved, mode \in ReservedOfferingModes}
    \cup SpreadScenarios
    \cup {Scenario(<<P1(EmptyResourceList, {"a"}), p2>>,
                   [z \in Zones |-> IF z = "a" THEN 1 ELSE 0], MaxReserved, "Disabled") :
            p2 \in {P2, HeavyP2}}

\* The gauge before it is set, and after Solve deleted its series.
NoMetric == [set |-> FALSE, value |-> 0]

\* No second invocation.
NoRun == [pc |-> "absent"]

\* NodeClaim.Add not called.
NoCall == [called |-> FALSE]

\* No mock is in use.
NoMock == [kind |-> "none"]

\* No snapshot collector is in use.
NoCollector == [kind |-> "none"]

\* The state before an invocation, but for the second invocation.
InitInvocation ==
    /\ \E sc \in Scenarios \cup PlacementScenarios :
        \E pending \in ShapeLists(MaxPods), deleting \in DeletingShapeLists :
            /\ Len(pending) + Len(deleting) <= MaxPods
            /\ cluster = [nodePools |-> sc.nodePools,
                          topologySeed |-> sc.topologySeed,
                          reservedCapacity |-> sc.reservedCapacity]
            /\ input = [PendingPods |-> MakePods(pending, 0),
                        DeletingNodePods |-> MakePods(deleting, Len(pending)),
                        SchedulerOptions |->
                            [reservedOfferingMode |-> sc.reservedOfferingMode,
                             numConcurrentReconciles |-> 1]]
    /\ caller = "none"
    /\ pc = "idle"
    /\ ctxErr = "nil"
    /\ s = NoScheduler
    /\ q = <<>>
    /\ podErrors = <<>>
    /\ popped = <<>>
    /\ solveCalls = 0
    /\ results = NoResults
    /\ solveErr = "nil"
    /\ decision = NilDecision
    /\ decisionErr = "nil"
    /\ unschedulablePodsCount = NoMetric
    /\ addCall = NoCall

\* One invocation, no mock.
InitAlone ==
    /\ InitInvocation
    /\ other = NoRun
    /\ mock = NoMock
    /\ collector = NoCollector

\* The cluster and the reserved-offering mode of the state.
ScenarioOf ==
    Scenario(cluster.nodePools, cluster.topologySeed, cluster.reservedCapacity,
             input.SchedulerOptions.reservedOfferingMode)

Init ==
    /\ InitAlone
    /\ ScenarioOf \in Scenarios

(***************************************************************************)
(* The actions.                                                            *)
(***************************************************************************)
\* The scheduler NewAltScheduler builds from the node pools, which the
\* provisioner hands over in the order of their weight, and the options.
newScheduler ==
    [NewAltScheduler(OrderByWeight(cluster.nodePools),
                     NewTopology(cluster.nodePools, cluster.topologySeed),
                     instanceTypesOf(cluster.nodePools),
                     cluster.reservedCapacity,
                     DaemonSetPods,
                     input.SchedulerOptions)
     EXCEPT !.uuid = 1]

\* Solve is entered: the pod data is cached and the queue built.
SolveBegin(sched, pods) ==
    /\ s' = [sched EXCEPT !.cachedPodData = cachedPodDataOf(pods)]
    /\ q' = NewQueue(pods, s'.cachedPodData)
    /\ podErrors' = <<>>
    /\ popped' = <<>>
    /\ solveCalls' = solveCalls + 1
    /\ unschedulablePodsCount' = NoMetric
    /\ pc' = "loop"

\* ComputeSchedulingDecision with nothing to schedule.
DecideNothingToSchedule ==
    /\ pc = "idle"
    /\ nothingToSchedule(allPods(input))
    /\ caller' = "ComputeSchedulingDecision"
    /\ decision' = Decision(NoResults, FALSE, allPods(input))
    /\ decisionErr' = "nil"
    /\ pc' = "done"
    /\ UNCHANGED <<cluster, input, ctxErr, s, q, podErrors, popped, solveCalls,
                   results, solveErr>>
    /\ UNCHANGED <<unschedulablePodsCount, other, addCall, mock, collector>>

\* ComputeSchedulingDecision when NewScheduler fails: no node pool is
\* eligible, or the scheduler cannot be created for another reason.
DecideSchedulerError ==
    /\ pc = "idle"
    /\ ~nothingToSchedule(allPods(input))
    /\ \E err \in {"ErrNodePoolsNotFound", "tracking topology counts"} :
        /\ err = "ErrNodePoolsNotFound" <=> NodePoolsNotFound(cluster.nodePools)
        /\ decision' = schedulerErrorDecision(err, allPods(input)).decision
        /\ decisionErr' = schedulerErrorDecision(err, allPods(input)).err
    /\ caller' = "ComputeSchedulingDecision"
    /\ pc' = "done"
    /\ UNCHANGED <<cluster, input, ctxErr, s, q, podErrors, popped, solveCalls,
                   results, solveErr>>
    /\ UNCHANGED <<unschedulablePodsCount, other, addCall, mock, collector>>

\* ComputeSchedulingDecision creates the scheduler and calls Solve.
DecideSolve ==
    /\ pc = "idle"
    /\ ~nothingToSchedule(allPods(input))
    /\ ~NodePoolsNotFound(cluster.nodePools)
    /\ caller' = "ComputeSchedulingDecision"
    /\ SolveBegin(newScheduler, allPods(input))
    /\ UNCHANGED <<cluster, input, ctxErr, results, solveErr, decision,
                   decisionErr>>
    /\ UNCHANGED <<other, addCall, mock, collector>>

\* Solve called on a scheduler NewAltScheduler built, without the provisioner.
CallSolve ==
    /\ pc = "idle"
    /\ caller' = "Solve"
    /\ SolveBegin(newScheduler, allPods(input))
    /\ UNCHANGED <<cluster, input, ctxErr, results, solveErr, decision,
                   decisionErr>>
    /\ UNCHANGED <<other, addCall, mock, collector>>

\* The deadline of the context passes.
DeadlineExceeded ==
    /\ pc \in {"loop", "finalize"}
    /\ ctxErr = "nil"
    /\ ctxErr' = "DeadlineExceeded"
    /\ UNCHANGED <<cluster, input, caller, pc, s, q, podErrors, popped,
                   solveCalls, results, solveErr, decision, decisionErr>>
    /\ UNCHANGED <<unschedulablePodsCount, other, addCall, mock, collector>>

\* The caller cancels the context.
Cancel ==
    /\ pc \in {"loop", "finalize"}
    /\ ctxErr = "nil"
    /\ ctxErr' = "Canceled"
    /\ UNCHANGED <<cluster, input, caller, pc, s, q, podErrors, popped,
                   solveCalls, results, solveErr, decision, decisionErr>>
    /\ UNCHANGED <<unschedulablePodsCount, other, addCall, mock, collector>>

\* One iteration of Solve's loop: the context is live, a pod is popped and
\* add places it or its error is recorded.
SolveIteration ==
    /\ pc = "loop"
    /\ ctxErr = "nil"
    /\ Pop(q).ok
    /\ LET pod == Pop(q).pod
           r == add(s, pod, 1, NilErrs)
       IN  /\ s' = r.s
           /\ podErrors' = recordPodError(podErrors, pod, r.err)
           /\ pc' = pcAfterAdd(r.err)
           /\ popped' = Append(popped, pod.uid)
    /\ q' = Pop(q).queue
    /\ UNCHANGED <<cluster, input, caller, ctxErr, solveCalls, results,
                   solveErr, decision, decisionErr>>
    /\ UNCHANGED <<unschedulablePodsCount, other, addCall, mock, collector>>

\* The loop ends: the context is done, or the queue is empty.
SolveBreak ==
    /\ pc = "loop"
    /\ ctxErr # "nil" \/ ~Pop(q).ok
    /\ pc' = "finalize"
    /\ UNCHANGED <<cluster, input, caller, ctxErr, s, q, podErrors, popped,
                   solveCalls, results, solveErr, decision, decisionErr>>
    /\ UNCHANGED <<unschedulablePodsCount, other, addCall, mock, collector>>

\* Solve finalizes the claims and returns the results and ctx.Err().
SolveReturn ==
    /\ pc = "finalize"
    /\ s' = [s EXCEPT !.newNodeClaims =
                [i \in 1..Len(@) |-> FinalizeScheduling(@[i])]]
    /\ results' = [NewNodeClaims |-> s'.newNodeClaims,
                   ExistingNodes |-> s'.existingNodes,
                   PodErrors |-> podErrors]
    /\ solveErr' = solveError(ctxErr)
    /\ pc' = IF caller = "Solve" THEN "done" ELSE "solved"
    /\ UNCHANGED <<cluster, input, caller, ctxErr, q, podErrors, popped,
                   solveCalls, decision, decisionErr>>
    /\ UNCHANGED <<unschedulablePodsCount, other, addCall, mock, collector>>

\* ComputeSchedulingDecision returns after Solve.
DecideReturn ==
    /\ pc = "solved"
    /\ decision' = solveDecision(results, solveErr, allPods(input)).decision
    /\ decisionErr' = solveDecision(results, solveErr, allPods(input)).err
    /\ pc' = "done"
    /\ UNCHANGED <<cluster, input, caller, ctxErr, s, q, podErrors, popped,
                   solveCalls, results, solveErr>>
    /\ UNCHANGED <<unschedulablePodsCount, other, addCall, mock, collector>>


Next ==
    \/ DecideNothingToSchedule
    \/ DecideSchedulerError
    \/ DecideSolve
    \/ CallSolve
    \/ DeadlineExceeded
    \/ Cancel
    \/ SolveIteration
    \/ SolveBreak
    \/ SolveReturn
    \/ DecideReturn

Spec == Init /\ [][Next]_vars

(***************************************************************************)
(* The provisioner handles the decision it was returned.                   *)
(***************************************************************************)
\* handleSchedulingDecision: with NoNodePoolsFound it returns before the
\* gauge is touched; otherwise the gauge is set from the results.
HandleSchedulingDecision ==
    /\ pc = "done"
    /\ caller = "ComputeSchedulingDecision"
    /\ ~decision.nil
    /\ unschedulablePodsCount' =
           IF decision.NoNodePoolsFound
           THEN unschedulablePodsCount
           ELSE [set |-> TRUE, value |-> unschedulablePodsCountOf(decision.Results)]
    /\ pc' = "handled"
    /\ UNCHANGED <<cluster, input, caller, ctxErr, s, q, podErrors, popped,
                   solveCalls, results, solveErr, decision, decisionErr,
                   other, addCall, mock, collector>>

\* Clusters of every reserved-offering mode, clusters that run spread pods,
\* a cluster without node pool and one whose pool allows no instance type.
DecisionScenarios ==
    ReservedScenarios
    \cup SpreadScenarios
    \cup {Scenario(<<>>, NoSeed, MaxReserved, "Disabled"),
          Scenario(<<P1(EmptyResourceList, {})>>, NoSeed, MaxReserved, "Disabled"),
          Scenario(<<P1(("cpu" :> MaxLimit), {"a"}), P2>>, NoSeed, MaxReserved,
                   "Disabled")}

InitDecision ==
    /\ Init
    /\ Scenario(cluster.nodePools, cluster.topologySeed, cluster.reservedCapacity,
                input.SchedulerOptions.reservedOfferingMode) \in DecisionScenarios

NextDecision ==
    \/ Next
    \/ HandleSchedulingDecision

SpecDecision == InitDecision /\ [][NextDecision]_vars

(***************************************************************************)
(* Solve over two pools of different weights.                              *)
(***************************************************************************)
InitPlacement ==
    /\ InitAlone
    /\ ScenarioOf \in PlacementScenarios

NextPlacement == Next

SpecPlacement == InitPlacement /\ [][NextPlacement]_vars

(***************************************************************************)
(* Solve runs on: Solve is one thread of control that nothing suspends, so *)
(* a step of its loop, the end of the loop and the return are each taken   *)
(* when they stay possible.  The deadline and the cancellation are the     *)
(* caller's and may never come.                                            *)
(***************************************************************************)
SolveRunsOn ==
    /\ WF_vars(SolveIteration)
    /\ WF_vars(SolveBreak)
    /\ WF_vars(SolveReturn)

\* Two pools under the strict mode with no reserved unit, and a cluster
\* that runs a spread pod.
TerminationScenarios ==
    {Scenario(<<P1(("cpu" :> 2), Zones), P2>>, NoSeed, 0, "Strict"),
     Scenario(<<P1(EmptyResourceList, {"a"})>>,
              [z \in Zones |-> IF z = "a" THEN 1 ELSE 0], MaxReserved, "Disabled")}

\* No node is being deleted: the pods are the pending pods.
InitTermination ==
    /\ InitAlone
    /\ ScenarioOf \in TerminationScenarios
    /\ input.DeletingNodePods = <<>>

NextTermination == Next

SpecTermination == InitTermination /\ [][NextTermination]_vars /\ SolveRunsOn

(***************************************************************************)
(* Two invocations of ComputeSchedulingDecision at the same time, each on  *)
(* a scheduler and a snapshot of its own.  The first is the invocation of  *)
(* the variables above; the second is the record other, with the same     *)
(* fields.  The contexts of both stay live.                                *)
(***************************************************************************)
\* The second invocation reads and writes the ledger of the first scheduler.
receiver_SharedLedger(own, peer) ==
    IF DOMAIN peer.remainingResources = DOMAIN own.remainingResources
    THEN [own EXCEPT !.remainingResources = peer.remainingResources]
    ELSE own

\* The second invocation counts on the topology of the first scheduler.
receiver_SharedTopology(own, peer) ==
    IF peer.topology.domains = own.topology.domains
    THEN [own EXCEPT !.topology = peer.topology]
    ELSE own

\* Solve and add work on the fields of their receiver s, and on nothing of
\* another scheduler.
receiver(own, peer) == own

\* The scheduler the second invocation constructs for its snapshot.
otherScheduler ==
    [NewAltScheduler(OrderByWeight(other.cluster.nodePools),
                     NewTopology(other.cluster.nodePools, other.cluster.topologySeed),
                     instanceTypesOf(other.cluster.nodePools),
                     other.cluster.reservedCapacity,
                     DaemonSetPods,
                     other.input.SchedulerOptions)
     EXCEPT !.uuid = 2]

\* The second invocation before it starts, for a snapshot and an input.
IdleRun(cl, in) ==
    [pc |-> "idle", cluster |-> cl, input |-> in, s |-> NoScheduler, q |-> <<>>,
     podErrors |-> <<>>, popped |-> <<>>, results |-> NoResults,
     solveErr |-> "nil", decision |-> NilDecision, decisionErr |-> "nil"]

UnchangedFirst ==
    UNCHANGED <<cluster, input, caller, pc, ctxErr, s, q, podErrors, popped,
                solveCalls, results, solveErr, decision, decisionErr, addCall, mock, collector>>

OtherDecideNothingToSchedule ==
    /\ other.pc = "idle"
    /\ nothingToSchedule(allPods(other.input))
    /\ other' = [other EXCEPT
                    !.decision = Decision(NoResults, FALSE, allPods(other.input)),
                    !.decisionErr = "nil",
                    !.pc = "done"]
    /\ UnchangedFirst
    /\ UNCHANGED unschedulablePodsCount

OtherDecideSchedulerError ==
    /\ other.pc = "idle"
    /\ ~nothingToSchedule(allPods(other.input))
    /\ \E err \in {"ErrNodePoolsNotFound", "tracking topology counts"} :
        /\ err = "ErrNodePoolsNotFound" <=> NodePoolsNotFound(other.cluster.nodePools)
        /\ LET r == schedulerErrorDecision(err, allPods(other.input))
           IN  other' = [other EXCEPT !.decision = r.decision,
                                      !.decisionErr = r.err,
                                      !.pc = "done"]
    /\ UnchangedFirst
    /\ UNCHANGED unschedulablePodsCount

OtherDecideSolve ==
    /\ other.pc = "idle"
    /\ ~nothingToSchedule(allPods(other.input))
    /\ ~NodePoolsNotFound(other.cluster.nodePools)
    /\ other' = [other EXCEPT
                    !.s = [otherScheduler EXCEPT
                              !.cachedPodData = cachedPodDataOf(allPods(other.input))],
                    !.q = NewQueue(allPods(other.input),
                                   cachedPodDataOf(allPods(other.input))),
                    !.podErrors = <<>>,
                    !.popped = <<>>,
                    !.pc = "loop"]
    /\ UnchangedFirst
    /\ unschedulablePodsCount' = NoMetric

OtherSolveIteration ==
    /\ other.pc = "loop"
    /\ Pop(other.q).ok
    /\ LET pod == Pop(other.q).pod
           r == add(receiver(other.s, s), pod, 1, NilErrs)
       IN  other' = [other EXCEPT
                        !.s = r.s,
                        !.podErrors = recordPodError(@, pod, r.err),
                        !.pc = pcAfterAdd(r.err),
                        !.popped = Append(@, pod.uid),
                        !.q = Pop(@).queue]
    /\ UnchangedFirst
    /\ UNCHANGED unschedulablePodsCount

OtherSolveBreak ==
    /\ other.pc = "loop"
    /\ ~Pop(other.q).ok
    /\ other' = [other EXCEPT !.pc = "finalize"]
    /\ UnchangedFirst
    /\ UNCHANGED unschedulablePodsCount

OtherSolveReturn ==
    /\ other.pc = "finalize"
    /\ LET claims == [i \in 1..Len(other.s.newNodeClaims) |->
                        FinalizeScheduling(other.s.newNodeClaims[i])]
       IN  other' = [other EXCEPT
                        !.s.newNodeClaims = claims,
                        !.results = [NewNodeClaims |-> claims,
                                     ExistingNodes |-> other.s.existingNodes,
                                     PodErrors |-> other.podErrors],
                        !.solveErr = solveError("nil"),
                        !.pc = "solved"]
    /\ UnchangedFirst
    /\ UNCHANGED unschedulablePodsCount

OtherDecideReturn ==
    /\ other.pc = "solved"
    /\ LET r == solveDecision(other.results, other.solveErr, allPods(other.input))
       IN  other' = [other EXCEPT !.decision = r.decision,
                                  !.decisionErr = r.err,
                                  !.pc = "done"]
    /\ UnchangedFirst
    /\ UNCHANGED unschedulablePodsCount

\* The snapshots of the first invocation.
RunScenarios ==
    {Scenario(<<>>, NoSeed, MaxReserved, "Disabled"),
     Scenario(<<P1(EmptyResourceList, {})>>, NoSeed, MaxReserved, "Disabled"),
     Scenario(<<P1(("cpu" :> 2), Zones), P2>>, NoSeed, MaxReserved, "Disabled"),
     Scenario(<<P1(EmptyResourceList, Zones)>>, NoSeed, MaxReserved, "Strict"),
     Scenario(<<P1(("cpu" :> 2), Zones)>>, NoSeed, MaxReserved, "BestEffort"),
     Scenario(<<P1(EmptyResourceList, Zones)>>,
              [z \in Zones |-> IF z = "a" THEN 1 ELSE 0], MaxReserved, "Disabled")}

\* The values of the concurrency hint: 0 when the option is not given.
ConcurrencyHints == {0, 1, 10}

\* A snapshot and an input of their own: the uids of the pods are those of
\* the first invocation, the pods are not.
IndependentRun ==
    IdleRun([nodePools |-> <<P1(("cpu" :> 2), Zones), P2>>,
             topologySeed |-> NoSeed,
             reservedCapacity |-> MaxReserved],
            [PendingPods |->
                MakePods(<<[requests |-> [cpu |-> 2, memory |-> 1],
                            spread |-> FALSE, ports |-> {}],
                           [requests |-> [cpu |-> 1, memory |-> 1],
                            spread |-> TRUE, ports |-> {}]>>, 0),
             DeletingNodePods |-> <<>>,
             SchedulerOptions |-> [reservedOfferingMode |-> "Strict",
                                   numConcurrentReconciles |-> 1]])

\* The second invocation has the input of the first, but for the
\* concurrency hint, or a snapshot and an input of its own.
InitRuns ==
    /\ InitInvocation
    /\ mock = NoMock
    /\ collector = NoCollector
    /\ Scenario(cluster.nodePools, cluster.topologySeed, cluster.reservedCapacity,
                input.SchedulerOptions.reservedOfferingMode) \in RunScenarios
    /\ \/ \E h \in ConcurrencyHints :
            other = IdleRun(cluster,
                            [input EXCEPT
                                !.SchedulerOptions.numConcurrentReconciles = h])
       \/ other = IndependentRun

NextRuns ==
    \/ DecideNothingToSchedule
    \/ DecideSchedulerError
    \/ DecideSolve
    \/ SolveIteration
    \/ SolveBreak
    \/ SolveReturn
    \/ DecideReturn
    \/ OtherDecideNothingToSchedule
    \/ OtherDecideSchedulerError
    \/ OtherDecideSolve
    \/ OtherSolveIteration
    \/ OtherSolveBreak
    \/ OtherSolveReturn
    \/ OtherDecideReturn

SpecRuns == InitRuns /\ [][NextRuns]_vars

(***************************************************************************)
(* NodeClaim.Add on its own: a claim, new or holding a pod, is given a pod.*)
(***************************************************************************)
\* The host port a pod or a daemon may declare.
HostPorts == {{}, {"tcp/80"}}

\* The pods given to Add.
AddPods ==
    {[uid |-> 0, requests |-> [cpu |-> c, memory |-> 1], spread |-> sp,
      ports |-> ports] :
        c \in 1..2, sp \in BOOLEAN, ports \in HostPorts}

\* New claims of pool p1: the daemons hold a host port or none, the limits
\* left every instance type or some.
NewClaims ==
    {NewNodeClaim(NewNodeClaimTemplate(P1(EmptyResourceList, Zones)),
                  ZeroResources, ports, options) :
        ports \in HostPorts,
        options \in {CatalogOrder, <<"m", "r">>, <<"s">>}}

\* The claims Add is called on: new, or holding a small pod already.
AddClaims ==
    NewClaims
    \cup {[nc EXCEPT !.Pods = <<MaxPods + 1>>,
                     !.requests = [cpu |-> 1, memory |-> 1]] : nc \in NewClaims}

CallNodeClaimAdd ==
    /\ ~addCall.called
    /\ \E nc \in AddClaims, pod \in AddPods, seed \in SeedChoices,
          n \in 0..MaxReserved, mode \in ReservedOfferingModes :
        LET topology == [counts |-> seed, domains |-> Zones,
                         maxSkew |-> SpreadMaxSkew]
            rm == NewReservationManager(n)
        IN  addCall' = [called |-> TRUE, nc |-> nc, pod |-> pod,
                        topology |-> topology, reservationManager |-> rm,
                        mode |-> mode,
                        result |-> NodeClaimAdd(nc, pod, [Requests |-> pod.requests],
                                                topology, rm, mode)]
    /\ UNCHANGED <<cluster, input, caller, pc, ctxErr, s, q, podErrors, popped,
                   solveCalls, results, solveErr, decision, decisionErr,
                   unschedulablePodsCount, other, mock, collector>>

InitAdd ==
    /\ Init
    /\ cluster.nodePools = <<>>
    /\ input.PendingPods = <<>>
    /\ input.DeletingNodePods = <<>>

NextAdd == CallNodeClaimAdd

SpecAdd == InitAdd /\ [][NextAdd]_vars

(***************************************************************************)
(* The topology tracker asked for the domain of a pod.                     *)
(***************************************************************************)
\* The maximum skew of a spread constraint: that of the spread pods, or one
\* more.
SkewChoices == {SpreadMaxSkew, SpreadMaxSkew + 1}

\* The trackers: every count of every zone, over the domains that hold the
\* zones with a pod.
Topologies ==
    {[counts |-> counts, domains |-> domains, maxSkew |-> maxSkew] :
        counts \in [Zones -> 0..MaxSeed],
        domains \in SUBSET Zones \ {{}},
        maxSkew \in SkewChoices}

\* The tracker is asked for the domain of a pod whose claim offers the zones.
CallNextDomain ==
    /\ ~addCall.called
    /\ \E topology \in Topologies, zones \in SUBSET Zones :
        /\ \A z \in Zones : topology.counts[z] > 0 => z \in topology.domains
        /\ addCall' = [called |-> TRUE, topology |-> topology, zones |-> zones,
                        domain |-> nextDomain(topology, zones)]
    /\ UNCHANGED <<cluster, input, caller, pc, ctxErr, s, q, podErrors, popped,
                   solveCalls, results, solveErr, decision, decisionErr,
                   unschedulablePodsCount, other, mock, collector>>

InitTopology == InitAdd

NextTopology == CallNextDomain

SpecTopology == InitTopology /\ [][NextTopology]_vars

(***************************************************************************)
(* Solve called once more on the scheduler of an earlier Solve.            *)
(***************************************************************************)
\* Solve is called again, with the same pods, on the scheduler that returned.
SolveAgain ==
    /\ pc = "done"
    /\ caller = "Solve"
    /\ solveCalls < MaxSolveCalls
    /\ SolveBegin(s, allPods(input))
    /\ ctxErr' = "nil"
    /\ UNCHANGED <<cluster, input, caller, results, solveErr, decision,
                   decisionErr, other, addCall, mock, collector>>

NextReuse ==
    \/ Next
    \/ SolveAgain

SpecReuse == InitDecision /\ [][NextReuse]_vars

(***************************************************************************)
(* The test mocks: MockQueue, MockRecorder, MockValidator, MockMethod and  *)
(* MockCluster.  Goroutines 1..MaxGoroutines call the tracked method of a  *)
(* mock, one more goroutine calls Reset.  A call locks mu, reads the record*)
(* of the calls, writes it back with the call added, unlocks mu and runs   *)
(* the behavior.                                                           *)
(***************************************************************************)
MockKinds == {"MockQueue", "MockRecorder", "MockValidator", "MockMethod", "MockCluster"}

\* The method of the mock that is tracked.
TrackedMethod(kind) ==
    CASE kind = "MockQueue" -> "StartCommand"
      [] kind = "MockRecorder" -> "Publish"
      [] kind = "MockValidator" -> "Validate"
      [] kind = "MockMethod" -> "ShouldDisrupt"
      [] kind = "MockCluster" -> "Synced"

Callers == 1..MaxGoroutines

Resetter == MaxGoroutines + 1

Unlocked == 0

\* What a new mock has recorded, and what Reset leaves: the slice of the
\* calls empty, the map of the queue empty, the counter of the cluster 0
\* and its context nil (0).
NoRecords ==
    [Calls |-> <<>>, ProviderIDToCommand |-> {}, SyncedCalls |-> 0, SyncedCtx |-> 0]

\* m.mu.Lock() goes through whether mu is held or not.
lockAvailable_Always(mu) == TRUE

\* m.mu.Lock() goes through when no goroutine holds mu.
lockAvailable(mu) == mu = Unlocked

\* What the tracked method writes under the lock, for the call of goroutine
\* g with n arguments to record: the cluster counts the call and keeps its
\* context, the recorder appends the events it was passed, the others
\* append the one argument of the call; the queue maps the provider id of
\* the command's candidate to the command as well.
recordCall(kind, records, g, n) ==
    CASE kind = "MockCluster" ->
            [records EXCEPT !.SyncedCalls = @ + 1, !.SyncedCtx = g]
      [] kind = "MockRecorder" ->
            [records EXCEPT !.Calls = @ \o [i \in 1..n |-> <<g, i>>]]
      [] kind = "MockQueue" ->
            [records EXCEPT !.Calls = Append(@, <<g, 1>>),
                            !.ProviderIDToCommand = @ \cup {g}]
      [] OTHER ->
            [records EXCEPT !.Calls = Append(@, <<g, 1>>)]

\* GetStartCommandCallCount, GetEventCount, GetValidateCallCount,
\* GetShouldDisruptCallCount, GetSyncedCallCount.
callCount(kind, records) ==
    IF kind = "MockCluster" THEN records.SyncedCalls ELSE Len(records.Calls)

\* How many events each goroutine passes to Publish: the same number for
\* all, or different numbers.
EventChoices ==
    {[g \in Callers |-> n] : n \in 0..MaxEvents}
    \cup {[g \in Callers |-> g % (MaxEvents + 1)]}

\* The other tracked methods record their one call.
OneEach == [g \in Callers |-> 1]

NewMock(kind, events) ==
    [kind |-> kind,
     events |-> events,
     mu |-> Unlocked,
     records |-> NoRecords,
     pc |-> [g \in Callers \cup {Resetter} |-> "idle"],
     local |-> [g \in Callers |-> NoRecords],
     since |-> {}]

InitMocks ==
    /\ InitInvocation
    /\ cluster.nodePools = <<>>
    /\ input.PendingPods = <<>>
    /\ input.DeletingNodePods = <<>>
    /\ other = NoRun
    /\ \E kind \in MockKinds :
        \E events \in (IF kind = "MockRecorder" THEN EventChoices ELSE {OneEach}) :
            mock = NewMock(kind, events)
    /\ collector = NoCollector

UnchangedScheduling ==
    UNCHANGED <<cluster, input, caller, pc, ctxErr, s, q, podErrors, popped,
                solveCalls, results, solveErr, decision, decisionErr,
                unschedulablePodsCount, other, addCall, collector>>

\* m.mu.Lock() of the tracked method.
MockLock ==
    /\ \E g \in Callers :
        /\ mock.pc[g] = "idle"
        /\ lockAvailable(mock.mu)
        /\ mock' = [mock EXCEPT !.mu = g, !.pc[g] = "locked"]
    /\ UnchangedScheduling

\* The tracked method reads what is recorded: the slice it appends to, the
\* counter it increments.
MockRead ==
    /\ \E g \in Callers :
        /\ mock.pc[g] = "locked"
        /\ mock' = [mock EXCEPT !.local[g] = mock.records, !.pc[g] = "read"]
    /\ UnchangedScheduling

\* The tracked method writes the record with its call added.
MockWrite ==
    /\ \E g \in Callers :
        /\ mock.pc[g] = "read"
        /\ mock' = [mock EXCEPT
                       !.records = recordCall(mock.kind, mock.local[g], g, mock.events[g]),
                       !.since = @ \cup {g},
                       !.pc[g] = "written"]
    /\ UnchangedScheduling

\* behavior := m.<Method>Behavior; m.mu.Unlock()
MockUnlock ==
    /\ \E g \in Callers :
        /\ mock.pc[g] = "written"
        /\ mock' = [mock EXCEPT !.mu = Unlocked, !.pc[g] = "unlocked"]
    /\ UnchangedScheduling

\* The behavior runs, outside the lock, and the method returns.
MockBehavior ==
    /\ \E g \in Callers :
        /\ mock.pc[g] = "unlocked"
        /\ mock' = [mock EXCEPT !.pc[g] = "returned"]
    /\ UnchangedScheduling

\* m.mu.Lock() of Reset.
ResetLock ==
    /\ mock.pc[Resetter] = "idle"
    /\ lockAvailable(mock.mu)
    /\ mock' = [mock EXCEPT !.mu = Resetter, !.pc[Resetter] = "locked"]
    /\ UnchangedScheduling

\* Reset clears what is recorded.
ResetWrite ==
    /\ mock.pc[Resetter] = "locked"
    /\ mock' = [mock EXCEPT !.records = NoRecords,
                            !.since = {},
                            !.pc[Resetter] = "written"]
    /\ UnchangedScheduling

\* defer m.mu.Unlock(): Reset returns.
ResetUnlock ==
    /\ mock.pc[Resetter] = "written"
    /\ mock' = [mock EXCEPT !.mu = Unlocked, !.pc[Resetter] = "returned"]
    /\ UnchangedScheduling

NextMocks ==
    \/ MockLock
    \/ MockRead
    \/ MockWrite
    \/ MockUnlock
    \/ MockBehavior
    \/ ResetLock
    \/ ResetWrite
    \/ ResetUnlock

SpecMocks == InitMocks /\ [][NextMocks]_vars

(***************************************************************************)
(* The SnapshotCollector.  Its callers call Start and Stop, one call after *)
(* another and several at once; every Start that finds the collector not   *)
(* running starts a goroutine that takes a snapshot at each tick until it  *)
(* finds stopCh closed or the context done.  close on a closed channel     *)
(* panics, and nothing recovers: the program ends there.                   *)
(***************************************************************************)
CollectorCallers == {"c1", "c2"}

\* NewSnapshotCollector: no snapshot, stopCh made and open, not running.
NewSnapshotCollector ==
    [kind |-> "SnapshotCollector",
     snapshots |-> 0,
     mutex |-> "unlocked",
     stopCh |-> "open",
     running |-> FALSE,
     ctxDone |-> FALSE,
     panicked |-> FALSE,
     calls |-> 0,
     ticks |-> 0,
     pc |-> [c \in CollectorCallers |-> "idle"],
     goroutines |-> <<>>]

InitCollector ==
    /\ InitInvocation
    /\ cluster.nodePools = <<>>
    /\ input.PendingPods = <<>>
    /\ input.DeletingNodePods = <<>>
    /\ other = NoRun
    /\ mock = NoMock
    /\ collector = NewSnapshotCollector

UnchangedButCollector ==
    UNCHANGED <<cluster, input, caller, pc, ctxErr, s, q, podErrors, popped,
                solveCalls, results, solveErr, decision, decisionErr,
                unschedulablePodsCount, other, addCall, mock>>

\* A caller may begin one more call, and gets the mutex.
MayLock(c) ==
    /\ ~collector.panicked
    /\ collector.pc[c] = "idle"
    /\ collector.calls < MaxCollectorCalls
    /\ collector.mutex = "unlocked"

\* takeSnapshot appends one snapshot under the mutex.
takeSnapshot(sc) == [sc EXCEPT !.snapshots = @ + 1]

\* Start: sc.mutex.Lock().
StartLock ==
    /\ \E c \in CollectorCallers :
        /\ MayLock(c)
        /\ collector' = [collector EXCEPT !.mutex = c, !.calls = @ + 1,
                                          !.pc[c] = "Start:locked"]
    /\ UnchangedButCollector

\* Start: already running, unlock and return.
StartAlreadyRunning ==
    /\ \E c \in CollectorCallers :
        /\ ~collector.panicked
        /\ collector.pc[c] = "Start:locked"
        /\ collector.running
        /\ collector' = [collector EXCEPT !.mutex = "unlocked",
                                          !.pc[c] = "idle"]
    /\ UnchangedButCollector

\* Start: sc.running = true, unlock.
StartMarkRunning ==
    /\ \E c \in CollectorCallers :
        /\ ~collector.panicked
        /\ collector.pc[c] = "Start:locked"
        /\ ~collector.running
        /\ collector' = [collector EXCEPT !.running = TRUE,
                                          !.mutex = "unlocked",
                                          !.pc[c] = "Start:snapshot"]
    /\ UnchangedButCollector

\* Start: the initial snapshot.
StartSnapshot ==
    /\ \E c \in CollectorCallers :
        /\ ~collector.panicked
        /\ collector.pc[c] = "Start:snapshot"
        /\ collector.mutex = "unlocked"
        /\ collector' = [takeSnapshot(collector) EXCEPT !.pc[c] = "Start:go"]
    /\ UnchangedButCollector

\* Start: the ticker is made, the goroutine started, and Start returns.
StartGo ==
    /\ \E c \in CollectorCallers :
        /\ ~collector.panicked
        /\ collector.pc[c] = "Start:go"
        /\ collector' = [collector EXCEPT
                            !.goroutines = Append(@, "select"),
                            !.pc[c] = "idle"]
    /\ UnchangedButCollector

\* The goroutine: case <-ticker.C, one more snapshot.
PeriodicTick ==
    /\ \E g \in DOMAIN collector.goroutines :
        /\ ~collector.panicked
        /\ collector.goroutines[g] = "select"
        /\ collector.ticks < MaxTicks
        /\ collector.mutex = "unlocked"
        /\ collector' = [takeSnapshot(collector) EXCEPT !.ticks = @ + 1]
    /\ UnchangedButCollector

\* The goroutine: case <-sc.stopCh, which a closed channel makes ready.
PeriodicStopped ==
    /\ \E g \in DOMAIN collector.goroutines :
        /\ ~collector.panicked
        /\ collector.goroutines[g] = "select"
        /\ collector.stopCh = "closed"
        /\ collector' = [collector EXCEPT !.goroutines[g] = "returned"]
    /\ UnchangedButCollector

\* The goroutine: case <-ctx.Done().
PeriodicContextDone ==
    /\ \E g \in DOMAIN collector.goroutines :
        /\ ~collector.panicked
        /\ collector.goroutines[g] = "select"
        /\ collector.ctxDone
        /\ collector' = [collector EXCEPT !.goroutines[g] = "returned"]
    /\ UnchangedButCollector

\* The context handed to Start is cancelled.
ContextDone ==
    /\ collector.kind = "SnapshotCollector"
    /\ ~collector.panicked
    /\ ~collector.ctxDone
    /\ collector' = [collector EXCEPT !.ctxDone = TRUE]
    /\ UnchangedButCollector

\* Stop: sc.mutex.Lock().
StopLock ==
    /\ \E c \in CollectorCallers :
        /\ MayLock(c)
        /\ collector' = [collector EXCEPT !.mutex = c, !.calls = @ + 1,
                                          !.pc[c] = "Stop:locked"]
    /\ UnchangedButCollector

\* Stop: not running, return; the deferred Unlock runs.
StopNotRunning ==
    /\ \E c \in CollectorCallers :
        /\ ~collector.panicked
        /\ collector.pc[c] = "Stop:locked"
        /\ ~collector.running
        /\ collector' = [collector EXCEPT !.mutex = "unlocked",
                                          !.pc[c] = "idle"]
    /\ UnchangedButCollector

\* close(sc.stopCh): a closed channel panics.
closeStopCh(sc) ==
    IF sc.stopCh = "closed"
    THEN [sc EXCEPT !.panicked = TRUE]
    ELSE [sc EXCEPT !.stopCh = "closed"]

\* Stop: sc.running = false, close(sc.stopCh); the deferred Unlock runs,
\* on the return and on the panic alike.
StopClose ==
    /\ \E c \in CollectorCallers :
        /\ ~collector.panicked
        /\ collector.pc[c] = "Stop:locked"
        /\ collector.running
        /\ collector' =
              [closeStopCh([collector EXCEPT !.running = FALSE])
                  EXCEPT !.mutex = "unlocked", !.pc[c] = "idle"]
    /\ UnchangedButCollector

NextCollector ==
    \/ StartLock
    \/ StartAlreadyRunning
    \/ StartMarkRunning
    \/ StartSnapshot
    \/ StartGo
    \/ PeriodicTick
    \/ PeriodicStopped
    \/ PeriodicContextDone
    \/ ContextDone
    \/ StopLock
    \/ StopNotRunning
    \/ StopClose

SpecCollector == InitCollector /\ [][NextCollector]_vars

(***************************************************************************)
(* What the properties speak of.                                           *)
(***************************************************************************)
AllUids == {allPods(input)[i].uid : i \in 1..Len(allPods(input))}

PodOf(uid) == CHOOSE p \in Range(allPods(input)) : p.uid = uid

\* Solve was entered and has returned.
SolveReturned == solveCalls > 0 /\ pc \in {"solved", "done"}

\* The places (claim, position) at which the claims hold the pod.
PlacesIn(claims, uid) ==
    UNION {{<<i, j>> : j \in {k \in 1..Len(claims[i].Pods) : claims[i].Pods[k] = uid}} :
            i \in 1..Len(claims)}

\* In how many of new claims, existing nodes and PodErrors the pod appears.
Appearances(res, uid) ==
    Cardinality(PlacesIn(res.NewNodeClaims, uid))
    + Cardinality(PlacesIn(res.ExistingNodes, uid))
    + (IF uid \in DOMAIN res.PodErrors THEN 1 ELSE 0)

\* The pods the claims hold.
AssignedUids(claims) == UNION {Range(claims[i].Pods) : i \in 1..Len(claims)}

\* The claims created from a pool.
ClaimsOf(claims, pool) == {i \in 1..Len(claims) : claims[i].NodePoolName = pool}

PoolNamed(name) == CHOOSE np \in Range(cluster.nodePools) : np.Name = name

\* The largest capacity, on a dimension, among the options of a claim.
MaxFootprint(nc, d) ==
    MaxOf({InstanceTypes[it].Capacity[d] : it \in Range(nc.InstanceTypeOptions)})

RECURSIVE SumFootprints(_, _, _)
SumFootprints(claims, pool, d) ==
    IF claims = <<>>
    THEN 0
    ELSE (IF Head(claims).NodePoolName = pool THEN MaxFootprint(Head(claims), d) ELSE 0)
         + SumFootprints(Tail(claims), pool, d)

\* The decision holds the claims the scheduler created, each with its pool
\* and its pods.
RetainsClaims(dec, claims) ==
    /\ Len(dec.Results.NewNodeClaims) = Len(claims)
    /\ \A i \in 1..Len(claims) :
        /\ dec.Results.NewNodeClaims[i].NodePoolName = claims[i].NodePoolName
        /\ dec.Results.NewNodeClaims[i].Pods = claims[i].Pods

(***************************************************************************)
(* C1.  When Solve has run until the queue is empty, every pod given to    *)
(* Solve appears in exactly one of: the pods of exactly one new NodeClaim, *)
(* the pods of exactly one existing node, PodErrors - for any number of    *)
(* eligible templates, zero included.                                      *)
(***************************************************************************)
C1_Exclusive ==
    (SolveReturned /\ q = <<>>) =>
        \A uid \in AllUids : Appearances(results, uid) = 1

(***************************************************************************)
(* C2.  In every state, for every pool and every dimension the pool        *)
(* limits, the remaining resources are >= 0, and the largest footprints of *)
(* the claims created from the pool add up to no more than its limit.      *)
(***************************************************************************)
C2_LedgerNonNegative ==
    \A pool \in DOMAIN s.remainingResources :
        \A d \in DOMAIN s.remainingResources[pool] :
            /\ s.remainingResources[pool][d] >= 0
            /\ SumFootprints(s.newNodeClaims, pool, d) <= PoolNamed(pool).Limits[d]

\* A limited pool from which two claims were made and that has nothing left.
C2_Witness ==
    \E pool \in DOMAIN s.remainingResources :
        /\ Cardinality(ClaimsOf(s.newNodeClaims, pool)) >= 2
        /\ \E d \in DOMAIN s.remainingResources[pool] :
            s.remainingResources[pool][d] = 0

(***************************************************************************)
(* C3.  With no eligible pool (none exists, or the requirements of every   *)
(* pool filter out all its instance types) and at least one pod,           *)
(* ComputeSchedulingDecision returns no error and a decision with          *)
(* NoNodePoolsFound, no NewNodeClaims and no PodErrors, and Solve's loop   *)
(* is never entered.                                                       *)
(***************************************************************************)
C3_NoNodePools ==
    (/\ caller = "ComputeSchedulingDecision"
     /\ NodePoolsNotFound(cluster.nodePools)
     /\ Len(allPods(input)) >= 1) =>
        /\ pc = "done"
        /\ solveCalls = 0
        /\ decisionErr = "nil"
        /\ ~decision.nil
        /\ decision.NoNodePoolsFound
        /\ Len(decision.Results.NewNodeClaims) = 0
        /\ DOMAIN decision.Results.PodErrors = {}

\* Pools exist, their requirements leave no instance type, several pods.
C3_Witness ==
    /\ caller = "ComputeSchedulingDecision"
    /\ pc = "done"
    /\ cluster.nodePools # <<>>
    /\ NodePoolsNotFound(cluster.nodePools)
    /\ Len(allPods(input)) = MaxPods
    /\ decision.NoNodePoolsFound

(***************************************************************************)
(* C4.  When the deadline around Solve expires, ComputeSchedulingDecision  *)
(* returns a decision and no error; the decision holds every NodeClaim     *)
(* created before the expiry was seen, with its pods, and the number of    *)
(* assigned pods is at most the number of pods.                            *)
(***************************************************************************)
C4_DeadlineTolerated ==
    (/\ caller = "ComputeSchedulingDecision"
     /\ pc = "done"
     /\ solveCalls > 0
     /\ solveErr = "DeadlineExceeded") =>
        /\ ~decision.nil
        /\ decisionErr = "nil"
        /\ RetainsClaims(decision, s.newNodeClaims)
        /\ AssignedUids(decision.Results.NewNodeClaims) \subseteq AllUids
        /\ Cardinality(AssignedUids(decision.Results.NewNodeClaims))
               <= Len(allPods(input))

\* The deadline cut the loop short after a claim was created.
C4_Witness ==
    /\ caller = "ComputeSchedulingDecision"
    /\ pc = "done"
    /\ solveErr = "DeadlineExceeded"
    /\ q # <<>>
    /\ Len(decision.Results.NewNodeClaims) >= 1
    /\ decision.Results.NewNodeClaims[1].Pods # <<>>

(***************************************************************************)
(* C5.  When the context is cancelled while Solve loops,                   *)
(* ComputeSchedulingDecision returns a decision that retains the claims    *)
(* and assignments made before the cancellation, not a nil decision with   *)
(* an error.                                                               *)
(***************************************************************************)
C5_CancelTolerated ==
    (/\ caller = "ComputeSchedulingDecision"
     /\ pc = "done"
     /\ solveCalls > 0
     /\ solveErr = "Canceled") =>
        /\ ~decision.nil
        /\ decisionErr = "nil"
        /\ RetainsClaims(decision, s.newNodeClaims)

(***************************************************************************)
(* C6.  A pod that cannot be placed never aborts the batch: when Solve     *)
(* returns and the context was never done, every pod was popped, in order, *)
(* and Solve's error is nil, however many pods are in PodErrors; the       *)
(* failures appear only as entries of PodErrors.                           *)
(***************************************************************************)
C6_FailureNeverAborts ==
    (SolveReturned /\ ctxErr = "nil") =>
        /\ q = <<>>
        /\ popped = [i \in 1..Len(allPods(input)) |-> allPods(input)[i].uid]
        /\ solveErr = "nil"
        /\ DOMAIN results.PodErrors \subseteq Range(popped)

\* The first pod failed and a later pod was placed.
C6_Witness ==
    /\ SolveReturned
    /\ ctxErr = "nil"
    /\ Len(popped) = MaxPods
    /\ popped[1] \in DOMAIN results.PodErrors
    /\ popped[MaxPods] \in AssignedUids(results.NewNodeClaims)

(***************************************************************************)
(* C7.  In every decision ComputeSchedulingDecision returns, each          *)
(* NodeClaim exposes at most MaxInstanceTypes instance types, and what it  *)
(* exposes is the leading part of the order FinalizeScheduling gave the    *)
(* claim's options.                                                        *)
(***************************************************************************)
C7_Truncated ==
    (caller = "ComputeSchedulingDecision" /\ pc = "done" /\ ~decision.nil) =>
        /\ Len(decision.Results.NewNodeClaims) = Len(results.NewNodeClaims)
        /\ \A i \in 1..Len(decision.Results.NewNodeClaims) :
            LET exposed == decision.Results.NewNodeClaims[i].InstanceTypeOptions
                finalized == results.NewNodeClaims[i]
            IN  /\ Len(exposed) <= MaxInstanceTypes
                /\ Len(exposed) <= Len(finalized.InstanceTypeOptions)
                /\ finalized.finalized
                /\ finalized.InstanceTypeOptions =
                       OrderByPrice(finalized.InstanceTypeOptions)
                /\ exposed = SubSeq(finalized.InstanceTypeOptions, 1, Len(exposed))

\* After the deadline, a claim with more options than the cap was cut.
C7_Witness ==
    /\ caller = "ComputeSchedulingDecision"
    /\ pc = "done"
    /\ ~decision.nil
    /\ solveErr = "DeadlineExceeded"
    /\ \E i \in 1..Len(decision.Results.NewNodeClaims) :
        /\ Len(results.NewNodeClaims[i].InstanceTypeOptions) > MaxInstanceTypes
        /\ Len(decision.Results.NewNodeClaims[i].InstanceTypeOptions)
               = MaxInstanceTypes

(***************************************************************************)
(* C8.  Spread pods with maximum skew S over the zones.                    *)
(***************************************************************************)
Skew(topology) ==
    IF topology.domains = {}
    THEN 0
    ELSE MaxOf({topology.counts[z] : z \in topology.domains})
         - MinOf({topology.counts[z] : z \in topology.domains})

SpreadUids == {uid \in AllUids : PodOf(uid).spread}

\* The zone of the claim that holds the pod.
DomainOf(uid) ==
    LET i == CHOOSE k \in 1..Len(results.NewNodeClaims) :
                uid \in Range(results.NewNodeClaims[k].Pods)
    IN  results.NewNodeClaims[i].domain

\* Solve ran to the end and every pod was placed.
FullySuccessful ==
    /\ SolveReturned
    /\ q = <<>>
    /\ DOMAIN results.PodErrors = {}
    /\ AllUids \subseteq AssignedUids(results.NewNodeClaims)

\* The spread the tracker ends with is within S, and two spread pods over
\* the two zones land one per zone.
SpreadHolds ==
    /\ Skew(s.topology) <= SpreadMaxSkew
    /\ (Cardinality(SpreadUids) = 2 /\ s.topology.domains = Zones) =>
        \A u, v \in SpreadUids : u # v => DomainOf(u) # DomainOf(v)

MinCapacity(sched, pool, d) ==
    MinOf({InstanceTypes[it].Capacity[d] :
            it \in UNION {Range(sched.nodeClaimTemplates[i].InstanceTypeOptions) :
                            i \in {k \in 1..Len(sched.nodeClaimTemplates) :
                                    sched.nodeClaimTemplates[k].NodePoolName = pool}}})

ClaimsWithinLimit(sched) ==
    \A pool \in {sched.nodeClaimTemplates[i].NodePoolName :
                    i \in 1..Len(sched.nodeClaimTemplates)} :
        \A d \in DOMAIN PoolNamed(pool).Limits :
            MinCapacity(sched, pool, d) > 0 =>
                Cardinality(ClaimsOf(sched.newNodeClaims, pool))
                    * MinCapacity(sched, pool, d) <= PoolNamed(pool).Limits[d]

\* Every instance type of the template exceeds what is left to its pool.
Exhausted(sched, nodeClaimTemplate) ==
    /\ nodeClaimTemplate.NodePoolName \in DOMAIN sched.remainingResources
    /\ \A it \in Range(nodeClaimTemplate.InstanceTypeOptions) :
        \E d \in DOMAIN sched.remainingResources[nodeClaimTemplate.NodePoolName] :
            InstanceTypes[it].Capacity[d]
                > sched.remainingResources[nodeClaimTemplate.NodePoolName][d]

LimitFailureRecorded ==
    (/\ pc = "loop"
     /\ q # <<>>
     /\ popped' = Append(popped, Head(q).uid)
     /\ s'.newNodeClaims = s.newNodeClaims) =>
        LET uid == Head(q).uid
        IN  \A i \in 1..Len(s.nodeClaimTemplates) :
                Exhausted(s, s.nodeClaimTemplates[i]) =>
                    /\ uid \in DOMAIN podErrors'
                    /\ \/ LimitExceededErr(s.nodeClaimTemplates[i].NodePoolName)
                              \in Range(podErrors'[uid])
                       \/ \E e \in Range(podErrors'[uid]) :
                              e.kind = "ReservedOffering"

C9_LimitBoundsClaims ==
    [][ClaimsWithinLimit(s') /\ LimitFailureRecorded]_vars

\* One pool with a limit: a claim was made from it, and a later pod is in
\* PodErrors with the limit-exceeded cause that names the pool and no other.
C9_Witness ==
    /\ SolveReturned
    /\ Len(cluster.nodePools) = 1
    /\ DOMAIN cluster.nodePools[1].Limits # {}
    /\ Len(results.NewNodeClaims) >= 1
    /\ \E uid \in DOMAIN results.PodErrors :
        results.PodErrors[uid] = <<LimitExceededErr(cluster.nodePools[1].Name)>>

(***************************************************************************)
(* C10.  With a pool without limits whose instance types hold every pod    *)
(* next to the daemons of the pool, pods without spread constraint and     *)
(* reserved-offering mode Disabled, a Solve that runs to the end returns   *)
(* no PodErrors, at least one NodeClaim, and every pod assigned once.      *)
(***************************************************************************)
\* A template of a pool without limits, an option of which holds the pod.
AmpleFor(sched, pod) ==
    \E i \in 1..Len(sched.nodeClaimTemplates) :
        LET t == sched.nodeClaimTemplates[i]
        IN  /\ PoolNamed(t.NodePoolName).Limits = EmptyResourceList
            /\ \E it \in Range(t.InstanceTypeOptions) :
                Fits(Merge(sched.daemonOverhead[t.NodePoolName], pod.requests),
                     InstanceTypes[it].Capacity)

C10_AmplePlacesAll ==
    (/\ SolveReturned
     /\ q = <<>>
     /\ ctxErr = "nil"
     /\ AllUids # {}
     /\ s.reservedOfferingMode = "Disabled"
     /\ \A uid \in AllUids : ~PodOf(uid).spread /\ AmpleFor(s, PodOf(uid))) =>
        /\ DOMAIN results.PodErrors = {}
        /\ Len(results.NewNodeClaims) >= 1
        /\ \A uid \in AllUids :
            Cardinality(PlacesIn(results.NewNodeClaims, uid)) = 1

\* As many pods as the bound allows, a large one among them, placed on the
\* pool without limits, every pod on a claim of its own.
C10_Witness ==
    /\ SolveReturned
    /\ q = <<>>
    /\ ctxErr = "nil"
    /\ Len(allPods(input)) = MaxPods
    /\ s.reservedOfferingMode = "Disabled"
    /\ \A uid \in AllUids : ~PodOf(uid).spread /\ AmpleFor(s, PodOf(uid))
    /\ \E uid \in AllUids : PodOf(uid).requests.cpu = 2
    /\ Len(results.NewNodeClaims) = MaxPods
    /\ DOMAIN results.PodErrors = {}

(***************************************************************************)
(* C12.  With no pending pod and no pod of a deleting node,                *)
(* ComputeSchedulingDecision returns no error and a decision without       *)
(* NewNodeClaims, without PodErrors and with NoNodePoolsFound false,       *)
(* whatever the node pools are (none at all included), and no scheduler    *)
(* is constructed.                                                         *)
(***************************************************************************)
C12_NothingToSchedule ==
    (/\ caller = "ComputeSchedulingDecision"
     /\ input.PendingPods = <<>>
     /\ input.DeletingNodePods = <<>>) =>
        /\ pc \in {"done", "handled"}
        /\ decisionErr = "nil"
        /\ ~decision.nil
        /\ Len(decision.Results.NewNodeClaims) = 0
        /\ DOMAIN decision.Results.PodErrors = {}
        /\ ~decision.NoNodePoolsFound
        /\ s = NoScheduler
        /\ solveCalls = 0

\* No pod and no node pool: the decision is empty, not NoNodePoolsFound.
C12_Witness ==
    /\ caller = "ComputeSchedulingDecision"
    /\ pc = "done"
    /\ input.PendingPods = <<>>
    /\ input.DeletingNodePods = <<>>
    /\ cluster.nodePools = <<>>
    /\ ~decision.nil

(***************************************************************************)
(* C13.  In every decision ComputeSchedulingDecision returns, AllPods is   *)
(* the pending pods followed by the pods of the deleting nodes, each once; *)
(* and this list is what Solve is given: the pods popped so far followed   *)
(* by the queue are its uids, and the pod data is cached for exactly them. *)
(***************************************************************************)
UidsOf(pods) == [i \in 1..Len(pods) |-> pods[i].uid]

C13_AllPods ==
    LET pods == input.PendingPods \o input.DeletingNodePods
    IN  /\ (caller = "ComputeSchedulingDecision" /\ ~decision.nil) =>
            /\ decision.AllPods = pods
            /\ Len(decision.AllPods)
                   = Len(input.PendingPods) + Len(input.DeletingNodePods)
            /\ \A i, j \in 1..Len(decision.AllPods) :
                   decision.AllPods[i].uid = decision.AllPods[j].uid => i = j
        /\ (caller = "ComputeSchedulingDecision" /\ solveCalls > 0) =>
            /\ popped \o UidsOf(q) = UidsOf(pods)
            /\ DOMAIN s.cachedPodData = Range(UidsOf(pods))

\* A decision after Solve, for pending pods and a pod of a deleting node.
C13_Witness ==
    /\ caller = "ComputeSchedulingDecision"
    /\ ~decision.nil
    /\ solveCalls > 0
    /\ Len(input.PendingPods) >= 2
    /\ Len(input.DeletingNodePods) >= 1
    /\ decision.AllPods[Len(decision.AllPods)] = input.DeletingNodePods[1]
    /\ input.DeletingNodePods[1].uid \in AssignedUids(decision.Results.NewNodeClaims)

(***************************************************************************)
(* C14.  In every state, for every reserved offering, the units taken from *)
(* the reservation manager are the units reserved by the claims in         *)
(* newNodeClaims: a claim that was created and destroyed because Add       *)
(* failed holds none.                                                      *)
(***************************************************************************)
C14_ReservationsOfClaims ==
    solveCalls > 0 =>
        \A it \in ReservedTypes :
            cluster.reservedCapacity - s.reservationManager[it]
                = Cardinality({i \in 1..Len(s.newNodeClaims) :
                                it \in s.newNodeClaims[i].reserved})

\* A claim holds the last reserved unit and a later pod failed with a
\* reserved-offering error, its claim destroyed.
C14_Witness ==
    /\ solveCalls > 0
    /\ cluster.reservedCapacity > 0
    /\ \E it \in ReservedTypes : s.reservationManager[it] = 0
    /\ \E uid \in DOMAIN podErrors : IsReservedOfferingError(podErrors[uid])

(***************************************************************************)
(* C16.  During a Solve the remaining resources of every pool never grow   *)
(* from one step to the next, on any dimension; and an iteration that      *)
(* places no pod (the limits left no instance type, or Add failed and the  *)
(* claim was destroyed) leaves the remaining resources of every pool as    *)
(* they were.                                                              *)
(***************************************************************************)
LedgerStep ==
    (solveCalls' = solveCalls /\ solveCalls > 0) =>
        /\ DOMAIN s'.remainingResources = DOMAIN s.remainingResources
        /\ \A pool \in DOMAIN s.remainingResources :
            /\ DOMAIN s'.remainingResources[pool] = DOMAIN s.remainingResources[pool]
            /\ \A d \in DOMAIN s.remainingResources[pool] :
                s'.remainingResources[pool][d] <= s.remainingResources[pool][d]
        /\ (Len(popped') > Len(popped) /\ Head(q).uid \in DOMAIN podErrors') =>
            s'.remainingResources = s.remainingResources

C16_LedgerOnlyDecreases == [][LedgerStep]_vars

\* The remaining resources went down and a later attempt failed on Add, not
\* on the limits.
C16_Witness ==
    /\ solveCalls > 0
    /\ \E pool \in DOMAIN s.remainingResources :
        \E d \in DOMAIN s.remainingResources[pool] :
            /\ s.remainingResources[pool][d] < PoolNamed(pool).Limits[d]
            /\ s.remainingResources[pool][d] > 0
    /\ \E uid \in DOMAIN podErrors :
        \E i \in 1..Len(podErrors[uid]) : podErrors[uid][i].kind = "Incompatible"

(***************************************************************************)
(* C19.  Every Solve starts from fresh state, a second Solve on the same   *)
(* scheduler included: what it returns holds no claim of an earlier Solve  *)
(* (no pod is on two claims, there are no more claims than pods), and      *)
(* while nothing is placed the remaining resources are the limits.         *)
(***************************************************************************)
C19_FreshPerSolve ==
    /\ SolveReturned =>
        /\ Len(results.NewNodeClaims) <= Len(allPods(input))
        /\ \A uid \in AllUids :
            Cardinality(PlacesIn(results.NewNodeClaims, uid)) <= 1
    /\ (pc = "loop" /\ popped = <<>>) =>
        /\ s.newNodeClaims = <<>>
        /\ \A pool \in DOMAIN s.remainingResources :
            s.remainingResources[pool] = PoolNamed(pool).Limits

(***************************************************************************)
(* C20.  When a decision with node pools is handled, the gauge             *)
(* UnschedulablePodsCount is set to the number of entries of PodErrors     *)
(* that are not reserved-offering errors; it is not negative and counts no *)
(* pod whose error holds a reserved-offering cause.                        *)
(***************************************************************************)
C20_UnschedulableCount ==
    (pc = "handled" /\ ~decision.NoNodePoolsFound) =>
        /\ unschedulablePodsCount.set
        /\ unschedulablePodsCount.value >= 0
        /\ unschedulablePodsCount.value =
               Cardinality({uid \in DOMAIN decision.Results.PodErrors :
                   \A i \in 1..Len(decision.Results.PodErrors[uid]) :
                       decision.Results.PodErrors[uid][i].kind # "ReservedOffering"})

\* One pod is deferred for lack of reserved capacity, another cannot be
\* scheduled at all: the gauge is 1.
C20_Witness ==
    /\ pc = "handled"
    /\ ~decision.NoNodePoolsFound
    /\ Cardinality(DOMAIN decision.Results.PodErrors) = 2
    /\ Cardinality(ReservedOfferingErrors(decision.Results)) = 1
    /\ unschedulablePodsCount.value = 1

(***************************************************************************)
(* C15.  NodeClaim.Add is all-or-nothing: when it returns an error the     *)
(* instance-type options, the pods, the accumulated requests and the host  *)
(* ports of the claim are what they were before the call; when it          *)
(* succeeds the options are narrowed, the pod is appended, its requests    *)
(* are added and its host ports are recorded, all together.                *)
(***************************************************************************)
C15_AddAllOrNothing ==
    addCall.called =>
        LET before == addCall.nc
            after == addCall.result.nodeClaim
            pod == addCall.pod
        IN  /\ addCall.result.err # "nil" =>
                /\ after.InstanceTypeOptions = before.InstanceTypeOptions
                /\ after.Pods = before.Pods
                /\ after.requests = before.requests
                /\ after.hostPorts = before.hostPorts
                /\ after = before
                /\ addCall.result.topology = addCall.topology
                /\ addCall.result.reservationManager = addCall.reservationManager
            /\ addCall.result.err = "nil" =>
                /\ after.InstanceTypeOptions # <<>>
                /\ Range(after.InstanceTypeOptions)
                       \subseteq Range(before.InstanceTypeOptions)
                /\ \A it \in Range(after.InstanceTypeOptions) :
                       Fits(after.requests, InstanceTypes[it].Capacity)
                /\ after.Pods = Append(before.Pods, pod.uid)
                /\ after.requests = Merge(before.requests, pod.requests)
                /\ after.hostPorts = before.hostPorts \cup pod.ports
                /\ before.hostPorts \cap pod.ports = {}

\* Add fails on the spread constraint for a claim that holds a pod, after
\* the requests of the new pod had left fewer options than the claim has.
C15_Witness ==
    /\ addCall.called
    /\ addCall.result.err = "Incompatible"
    /\ addCall.nc.Pods # <<>>
    /\ addCall.pod.ports # {}
    /\ addCall.nc.hostPorts = {}
    /\ LET fitting == fittingOptions(addCall.nc.InstanceTypeOptions,
                                     Merge(addCall.nc.requests, addCall.pod.requests))
       IN  fitting # <<>> /\ Len(fitting) < Len(addCall.nc.InstanceTypeOptions)

(***************************************************************************)
(* Two invocations                                                         *)
(***************************************************************************)
\* Solve on a scheduler by itself: the pods added in the order of the queue,
\* the claims finalized, the results returned.
RECURSIVE SolveFrom(_, _, _)
SolveFrom(sched, pods, errors) ==
    IF pods = <<>>
    THEN [NewNodeClaims |-> [i \in 1..Len(sched.newNodeClaims) |->
                                FinalizeScheduling(sched.newNodeClaims[i])],
          ExistingNodes |-> sched.existingNodes,
          PodErrors |-> errors]
    ELSE LET r == add(sched, Head(pods), 1, NilErrs)
         IN  SolveFrom(r.s, Tail(pods), recordPodError(errors, Head(pods), r.err))

SolveAlone(sched, pods) ==
    SolveFrom([sched EXCEPT !.cachedPodData = cachedPodDataOf(pods)], pods, <<>>)

\* The grouping of the pods into claims: of each claim its pods, its pool and
\* its instance-type options, and nothing else.
ClaimShapes(res) ==
    [i \in 1..Len(res.NewNodeClaims) |->
        [Pods |-> res.NewNodeClaims[i].Pods,
         NodePoolName |-> res.NewNodeClaims[i].NodePoolName,
         InstanceTypeOptions |-> res.NewNodeClaims[i].InstanceTypeOptions]]

FirstSolveReturned == solveCalls > 0 /\ pc \in {"solved", "done"}

OtherSolveReturned == other.pc \in {"solved", "done"} /\ other.s # NoScheduler

DifferInHintOnly ==
    /\ other.cluster = cluster
    /\ other.input.SchedulerOptions.numConcurrentReconciles
         # input.SchedulerOptions.numConcurrentReconciles
    /\ [other.input EXCEPT !.SchedulerOptions.numConcurrentReconciles =
            input.SchedulerOptions.numConcurrentReconciles] = input

\* C17: two runs of ComputeSchedulingDecision whose inputs differ only in
\* the concurrency hint, neither of which failed to create its scheduler,
\* return the same decision and the same error; and whatever the hint, the
\* pods leave the queue one at a time.
C17_HintAdvisory ==
    /\ (/\ pc = "done"
        /\ other.pc = "done"
        /\ DifferInHintOnly
        /\ decisionErr # "creating scheduler"
        /\ other.decisionErr # "creating scheduler")
       => /\ other.decision = decision
          /\ other.decisionErr = decisionErr
    /\ other.pc = "loop"
       => /\ Len(other.popped) + Len(other.q) = Len(allPods(other.input))
          /\ Len(other.s.newNodeClaims) <= Len(other.popped)

C17_Witness ==
    /\ pc = "done"
    /\ other.pc = "done"
    /\ DifferInHintOnly
    /\ other.input.SchedulerOptions.numConcurrentReconciles > 1
    /\ input.SchedulerOptions.reservedOfferingMode = "Strict"
    /\ ~decision.nil
    /\ decision.Results.NewNodeClaims # <<>>
    /\ DOMAIN decision.Results.PodErrors # {}
    /\ other.decision = decision

Returned == {g \in Callers : mock.pc[g] = "returned"}

\* No call is under way: every goroutine has returned or has not called.
NoCallUnderWay == \A g \in Callers : mock.pc[g] \in {"idle", "returned"}

RECURSIVE SumEvents(_)
SumEvents(gs) ==
    IF gs = {}
    THEN 0
    ELSE LET g == CHOOSE x \in gs : TRUE
         IN  mock.events[g] + SumEvents(gs \ {g})

\* C21 as stated: when k goroutines have called the tracked method and
\* returned, and Reset was not called, the count the mock reports is k.
C21_CountIsCalls ==
    (NoCallUnderWay /\ mock.pc[Resetter] = "idle")
    => callCount(mock.kind, mock.records) = Cardinality(Returned)

\* C21: whenever mu is free, the count the mock reports is, for the
\* recorder, the number of events passed to the calls of Publish recorded
\* since Reset, and for the other mocks the number of calls recorded since
\* Reset; no record is lost or duplicated, and when Reset has returned and
\* no call was recorded after it, the count is 0.
C21_MockRecordsConsistent ==
    mock.mu = Unlocked
    => /\ callCount(mock.kind, mock.records) = SumEvents(mock.since)
       /\ mock.kind # "MockRecorder"
             => callCount(mock.kind, mock.records) = Cardinality(mock.since)
       /\ mock.kind # "MockCluster"
             => \A g \in Callers :
                    Cardinality({i \in 1..Len(mock.records.Calls) :
                                    mock.records.Calls[i][1] = g})
                    = (IF g \in mock.since THEN mock.events[g] ELSE 0)
       /\ (NoCallUnderWay /\ mock.pc[Resetter] = "idle")
             => mock.since = Returned
       /\ (mock.pc[Resetter] = "returned" /\ mock.since = {})
             => callCount(mock.kind, mock.records) = 0

\* Every goroutine has called and returned, then Reset was called.
C21_Witness ==
    /\ mock.kind = "MockRecorder"
    /\ Returned = Callers
    /\ mock.pc[Resetter] = "returned"
    /\ mock.since = {}
    /\ \E g \in Callers : mock.events[g] # 1

(***************************************************************************)
(* Placement                                                               *)
(***************************************************************************)
\* The step pops a pod and calls add for it.
AddStep == pc = "loop" /\ q # <<>> /\ popped' = Append(popped, Head(q).uid)

\* The step is an add that put a new claim in newNodeClaims.
ClaimCreated == AddStep /\ Len(s'.newNodeClaims) = Len(s.newNodeClaims) + 1

\* The claim the step created.
CreatedClaim == s'.newNodeClaims[Len(s'.newNodeClaims)]

\* A claim already created would take the pod: Add on it succeeds.
FitsInFlight(sched, pod) ==
    \E i \in 1..Len(sched.newNodeClaims) :
        NodeClaimAdd(sched.newNodeClaims[i], pod, sched.cachedPodData[pod.uid],
                     sched.topology, sched.reservationManager,
                     sched.reservedOfferingMode).err = "nil"

\* C22: a pod that one of the claims already created in this Solve would
\* accept never causes a new claim to be created.
C22_InFlightClaimsFirst ==
    [][(AddStep /\ FitsInFlight(s, Head(q))) => ~ClaimCreated]_vars
\* C23: at every point of a Solve each claim of newNodeClaims holds exactly
\* one pod, no pod is on two claims, so that the claims are as many as the
\* pods assigned, and the existing nodes hold no pod; the same is true of
\* the results Solve returns.
C23_OnePodPerClaim ==
    /\ \A i \in 1..Len(s.newNodeClaims) : Len(s.newNodeClaims[i].Pods) = 1
    /\ Len(s.newNodeClaims) = Cardinality(AssignedUids(s.newNodeClaims))
    /\ AssignedUids(s.newNodeClaims) \subseteq Range(popped)
    /\ AssignedUids(s.existingNodes) = {}
    /\ SolveReturned =>
          /\ \A i \in 1..Len(results.NewNodeClaims) :
                Len(results.NewNodeClaims[i].Pods) = 1
          /\ Len(results.NewNodeClaims) = Cardinality(AssignedUids(results.NewNodeClaims))
          /\ AssignedUids(results.ExistingNodes) = {}

\* Solve returned claims for three pods, two of which one claim could hold.
C23_Witness ==
    /\ SolveReturned
    /\ ctxErr = "nil"
    /\ Len(results.NewNodeClaims) >= 2
    /\ Cardinality(AssignedUids(results.NewNodeClaims)) + Cardinality(DOMAIN results.PodErrors)
         = Len(allPods(input))
    /\ \E i, j \in 1..Len(allPods(input)) :
          /\ i # j
          /\ Fits(Merge(allPods(input)[i].requests, allPods(input)[j].requests),
                  InstanceTypes["m"].Capacity)
          /\ {allPods(input)[i].uid, allPods(input)[j].uid}
                \subseteq AssignedUids(results.NewNodeClaims)
\* The weight of the pool of a template.
WeightOf(nodeClaimTemplate) == PoolNamed(nodeClaimTemplate.NodePoolName).Weight

\* The instance types the ledger leaves to a template.
LedgerFiltered(sched, i) ==
    limitedInstanceTypes(sched.nodeClaimTemplates[i], sched.remainingResources)

\* What Add returns for the pod on a new claim of template i.
AddOnTemplate(sched, i, pod) ==
    LET pool == sched.nodeClaimTemplates[i].NodePoolName
    IN  NodeClaimAdd(NewNodeClaim(sched.nodeClaimTemplates[i],
                                  sched.daemonOverhead[pool],
                                  sched.daemonHostPortUsage[pool],
                                  LedgerFiltered(sched, i)),
                     pod, sched.cachedPodData[pod.uid], sched.topology,
                     sched.reservationManager, sched.reservedOfferingMode)

\* Template i takes the pod: the ledger leaves it an option and Add succeeds.
Accepts(sched, i, pod) ==
    /\ LedgerFiltered(sched, i) # <<>>
    /\ AddOnTemplate(sched, i, pod).err = "nil"

TemplateOf(sched, pool) ==
    CHOOSE i \in 1..Len(sched.nodeClaimTemplates) :
        sched.nodeClaimTemplates[i].NodePoolName = pool

\* The templates stand in the order of the weights, the highest first.
InWeightOrder(sched) ==
    \A j, k \in 1..Len(sched.nodeClaimTemplates) :
        j < k => WeightOf(sched.nodeClaimTemplates[j]) >= WeightOf(sched.nodeClaimTemplates[k])

\* A new claim comes from a template that takes the pod, no template of a
\* higher weight and no template before it takes the pod, and the topology
\* and the reservations are as the Add on that template left them.
CreatedFromFirstByWeight ==
    ClaimCreated =>
        LET pod == Head(q)
            i == TemplateOf(s, CreatedClaim.NodePoolName)
        IN  /\ Accepts(s, i, pod)
            /\ \A j \in 1..Len(s.nodeClaimTemplates) :
                  (j < i \/ WeightOf(s.nodeClaimTemplates[j]) > WeightOf(s.nodeClaimTemplates[i]))
                  => ~Accepts(s, j, pod)
            /\ CreatedClaim = AddOnTemplate(s, i, pod).nodeClaim
            /\ s'.topology = AddOnTemplate(s, i, pod).topology
            /\ s'.reservationManager = AddOnTemplate(s, i, pod).reservationManager

\* C24: the templates of the scheduler stand in the order of the weights of
\* their pools, the highest first, and a new claim for a pod is created
\* from the first of them, hence the one of the highest weight, that the
\* ledger leaves an option to and whose Add succeeds; no template after it
\* leaves a trace.
C24_WeightOrder ==
    /\ [](pc \in {"loop", "finalize", "solved", "done"} => InWeightOrder(s))
    /\ [][CreatedFromFirstByWeight]_vars

\* The pools are listed with the lower weight first; the pool of the higher
\* weight got the first claim and, its ledger exhausted, the other pool the
\* second.
C24_Witness ==
    /\ SolveReturned
    /\ Len(cluster.nodePools) = 2
    /\ cluster.nodePools[1].Weight < cluster.nodePools[2].Weight
    /\ Len(results.NewNodeClaims) >= 2
    /\ results.NewNodeClaims[1].NodePoolName = cluster.nodePools[2].Name
    /\ results.NewNodeClaims[2].NodePoolName = cluster.nodePools[1].Name
\* C25: the error recorded for a pod whose Add failed with a
\* reserved-offering error is that error alone, with no cause of a template
\* tried before, and the pod is on no claim.
C25_OnlyReservedOfferingError ==
    \A uid \in DOMAIN podErrors :
        IsReservedOfferingError(podErrors[uid])
        => /\ Len(podErrors[uid]) = 1
           /\ uid \notin AssignedUids(s.newNodeClaims)
\* The ledger leaves no instance type to template i.
ExhaustedAt(sched, i) ==
    /\ Exhausted(sched, sched.nodeClaimTemplates[i])
    /\ LedgerFiltered(sched, i) = <<>>

\* The step is one of a Solve under way.
WithinSolve == solveCalls' = solveCalls /\ solveCalls > 0

ExhaustedStays ==
    WithinSolve =>
        \A i \in 1..Len(s.nodeClaimTemplates) :
            ExhaustedAt(s, i)
            => /\ s'.nodeClaimTemplates = s.nodeClaimTemplates
               /\ ExhaustedAt(s', i)
               /\ ClaimCreated =>
                    CreatedClaim.NodePoolName # s.nodeClaimTemplates[i].NodePoolName

\* C26: once the ledger of a pool leaves none of the instance types of its
\* template, it leaves none at any later step of the Solve, whatever pod is
\* popped, and no claim is created from that pool afterwards.
C26_ExhaustionPermanent == [][ExhaustedStays]_vars

\* A pool got a claim and was exhausted, a later pod was refused by its
\* ledger and went to the other pool, and a third pod was popped after.
C26_Witness ==
    /\ SolveReturned
    /\ Len(popped) >= 3
    /\ \E i \in 1..Len(s.nodeClaimTemplates) :
        LET pool == s.nodeClaimTemplates[i].NodePoolName
        IN  /\ ExhaustedAt(s, i)
            /\ ClaimsOf(s.newNodeClaims, pool) # {}
            /\ \E k \in 1..Len(s.newNodeClaims) :
                /\ s.newNodeClaims[k].NodePoolName # pool
                /\ \A j \in ClaimsOf(s.newNodeClaims, pool) : j < k
            /\ \E uid \in DOMAIN podErrors :
                \E j \in 1..Len(podErrors[uid]) :
                    podErrors[uid][j] = LimitExceededErr(pool)
\* The largest capacity, on a dimension, among the options of a template.
TemplateFootprint(nodeClaimTemplate, d) ==
    MaxOf({InstanceTypes[it].Capacity[d] : it \in Range(nodeClaimTemplate.InstanceTypeOptions)})

CommitStep ==
    /\ ClaimCreated =>
        LET pool == CreatedClaim.NodePoolName
        IN  /\ s'.newNodeClaims = Append(s.newNodeClaims, CreatedClaim)
            /\ DOMAIN s'.remainingResources = DOMAIN s.remainingResources
            /\ DOMAIN s'.remainingResources[pool] = DOMAIN s.remainingResources[pool]
            /\ \A d \in DOMAIN s.remainingResources[pool] :
                s'.remainingResources[pool][d]
                    = s.remainingResources[pool][d] - MaxFootprint(CreatedClaim, d)
            /\ \A p \in DOMAIN s.remainingResources \ {pool} :
                s'.remainingResources[p] = s.remainingResources[p]
    /\ (WithinSolve /\ s'.remainingResources # s.remainingResources) => ClaimCreated

\* C27: the step that appends a new claim of pool P to newNodeClaims takes
\* from the ledger of P, on each of its dimensions, exactly the largest
\* capacity among the instance types Add left to the claim, and leaves the
\* ledger of every other pool as it was; no other step of the Solve changes
\* a ledger.
C27_LedgerByNarrowedOptions == [][CommitStep]_vars

\* Add narrowed the options of the one claim of a pool so that their largest
\* capacity is below that of the template on a limited dimension; the ledger
\* of the pool is its limit less the former, that of the other pool its limit.
C27_Witness ==
    /\ solveCalls > 0
    /\ Len(s.nodeClaimTemplates) = 2
    /\ \E k \in 1..Len(s.newNodeClaims) :
        LET nc == s.newNodeClaims[k]
            pool == nc.NodePoolName
            i == TemplateOf(s, pool)
        IN  /\ ClaimsOf(s.newNodeClaims, pool) = {k}
            /\ \E d \in DOMAIN s.remainingResources[pool] :
                /\ MaxFootprint(nc, d) < TemplateFootprint(s.nodeClaimTemplates[i], d)
                /\ s.remainingResources[pool][d] = PoolNamed(pool).Limits[d] - MaxFootprint(nc, d)
            /\ \A p \in DOMAIN s.remainingResources \ {pool} :
                s.remainingResources[p] = PoolNamed(p).Limits
\* The step recorded an error for the pod it popped.
ErrorRecorded == AddStep /\ Head(q).uid \in DOMAIN podErrors'

AggregatedError ==
    (ErrorRecorded /\ ~IsReservedOfferingError(podErrors'[Head(q).uid])) =>
        LET err == podErrors'[Head(q).uid]
        IN  /\ Len(err) = Len(s.nodeClaimTemplates)
            /\ \A i \in 1..Len(err) :
                LET pool == s.nodeClaimTemplates[i].NodePoolName
                IN  err[i] = IF ExhaustedAt(s, i)
                             THEN LimitExceededErr(pool)
                             ELSE IncompatibleErr(pool, s.daemonOverhead[pool])
            /\ s'.newNodeClaims = s.newNodeClaims

\* C28: the error recorded for a pod that no template took and that met no
\* reserved-offering error has one cause for each template, in the order of
\* the templates: the limit cause for a template the ledger left no option,
\* otherwise the incompatibility cause with the pool and its daemon
\* overhead; no claim is created for the pod.
C28_OneCausePerTemplate == [][AggregatedError]_vars

\* An error of two causes: the limits of one pool, then the incompatibility
\* with the pool whose nodes run a daemon.
C28_Witness ==
    \E uid \in DOMAIN podErrors :
        /\ Len(podErrors[uid]) = 2
        /\ podErrors[uid][1].kind = "LimitExceeded"
        /\ podErrors[uid][2].kind = "Incompatible"
        /\ podErrors[uid][2].overhead # ZeroResources
\* A claim was created for the pod from some template, Add failed on it and
\* it was destroyed: for a pod that ends with an error, on any template the
\* ledger left an option; for a pod that is placed, on a template before
\* the one that took it.
ClaimDestroyed ==
    /\ AddStep
    /\ \E j \in 1..Len(s.nodeClaimTemplates) :
        /\ ~ExhaustedAt(s, j)
        /\ AddOnTemplate(s, j, Head(q)).err # "nil"
        /\ ClaimCreated => j < TemplateOf(s, CreatedClaim.NodePoolName)

\* The pods the claims count in a zone.
CountedIn(claims, z) == Cardinality({i \in 1..Len(claims) : claims[i].domain = z})

\* After the step the count of a zone is what it was, plus the pod of the
\* claim the step kept, if it kept one and the pod counts in that zone.
OnlyKeptClaimCounts ==
    \A z \in Zones :
        s'.topology.counts[z]
            = s.topology.counts[z]
              + (IF ClaimCreated /\ CreatedClaim.domain = z THEN 1 ELSE 0)

\* C29: a step in which a claim was created for the pod, Add failed and the
\* claim was destroyed leaves every domain count as it was before, but for
\* the pod of the claim a later template got to keep; when the pod ends with
\* an error the topology and the reservations are those before the step.
\* At every point of the Solve the count of a zone is its seed plus the
\* spread pods the claims of newNodeClaims hold there.
C29_DestroyRestoresTopology ==
    /\ [][ClaimDestroyed =>
            /\ OnlyKeptClaimCounts
            /\ ErrorRecorded =>
                /\ s'.topology = s.topology
                /\ s'.reservationManager = s.reservationManager]_vars
    /\ [](solveCalls > 0 =>
            \A z \in Zones :
                s.topology.counts[z]
                    = cluster.topologySeed[z] + CountedIn(s.newNodeClaims, z))

\* In a cluster that ran a spread pod already, a spread pod failed on Add
\* for the skew and a pod popped after it was placed; the counts are those
\* of the seed.
C29_Witness ==
    /\ SolveReturned
    /\ cluster.topologySeed # NoSeed
    /\ s.topology.counts = cluster.topologySeed
    /\ \E i, j \in 1..Len(popped) :
        /\ i < j
        /\ PodOf(popped[i]).spread
        /\ popped[i] \in DOMAIN podErrors
        /\ \E k \in 1..Len(podErrors[popped[i]]) :
              podErrors[popped[i]][k].kind = "Incompatible"
        /\ popped[j] \in AssignedUids(s.newNodeClaims)
\* The step finalizes: some claim that was not finalized is now.
FinalizeStep ==
    \E i \in 1..Len(s'.newNodeClaims) :
        /\ s'.newNodeClaims[i].finalized
        /\ i <= Len(s.newNodeClaims) => ~s.newNodeClaims[i].finalized

\* A finalizing step is the return of Solve after the loop, and it finalizes
\* every claim the loop created, none of which was finalized before; after
\* the return the claims are not touched again.
FinalizedOnceAtReturn ==
    /\ (WithinSolve /\ FinalizeStep) =>
        /\ pc = "finalize"
        /\ pc' \in {"solved", "done"}
        /\ \A i \in 1..Len(s.newNodeClaims) : ~s.newNodeClaims[i].finalized
        /\ s'.newNodeClaims =
              [i \in 1..Len(s.newNodeClaims) |-> FinalizeScheduling(s.newNodeClaims[i])]
    /\ (WithinSolve /\ pc \in {"solved", "done"}) => s'.newNodeClaims = s.newNodeClaims

\* C30: while pods are being placed no claim is finalized; the claims are
\* finalized in one step, the return of Solve after the loop has ended, by
\* the empty queue or by the context, each claim once; and the claims
\* returned in NewNodeClaims are the claims the loop created, every one
\* finalized.
C30_FinalizedOnce ==
    /\ [][FinalizedOnceAtReturn]_vars
    /\ []((solveCalls > 0 /\ pc \in {"loop", "finalize"}) =>
            \A i \in 1..Len(s.newNodeClaims) : ~s.newNodeClaims[i].finalized)
    /\ [](SolveReturned =>
            /\ results.NewNodeClaims = s.newNodeClaims
            /\ \A i \in 1..Len(results.NewNodeClaims) :
                  results.NewNodeClaims[i].finalized)

\* The context was cancelled with pods left in the queue, and Solve returned
\* the claims made so far, finalized.
C30_Witness ==
    /\ SolveReturned
    /\ ctxErr # "nil"
    /\ q # <<>>
    /\ Len(results.NewNodeClaims) >= 2
    /\ \A i \in 1..Len(results.NewNodeClaims) : results.NewNodeClaims[i].finalized
(***************************************************************************)
(* The loop of Solve                                                       *)
(***************************************************************************)
\* A step taken while the loop runs leaves the queue as it is, or takes the
\* pod at its head off and calls add for it; the only step that leaves the
\* queue alone with the context live and a pod queued is the context's.
LoopStep ==
    (WithinSolve /\ pc = "loop") =>
        \/ /\ q' = q
           /\ popped' = popped
           /\ \/ pc' = "finalize" /\ (ctxErr # "nil" \/ q = <<>>)
              \/ pc' = "loop" /\ ctxErr = "nil" /\ ctxErr' # "nil"
        \/ /\ ctxErr = "nil"
           /\ q # <<>>
           /\ q' = Tail(q)
           /\ popped' = Append(popped, Head(q).uid)

\* C31: every step of the loop either sees the context done and leaves the
\* loop, or takes one pod off the queue; no pod is put back, so that the
\* pods popped and the pods queued are together the pods of the input and
\* the loop body runs at most once per pod; and a Solve that was entered
\* returns.
C31_SolveTerminates ==
    /\ [][LoopStep]_vars
    /\ [][WithinSolve => Len(q') <= Len(q)]_vars
    /\ [](solveCalls > 0 => Len(popped) + Len(q) = Len(allPods(input)))
    /\ (pc = "loop") ~> SolveReturned

\* Solve returned after its loop ran once for each of three pods.
C31_Witness ==
    /\ SolveReturned
    /\ ctxErr = "nil"
    /\ Len(popped) = MaxPods
    /\ q = <<>>
\* The uids of the pods, in their order.
UidSeq(pods) == [i \in 1..Len(pods) |-> pods[i].uid]

\* The step leaves the cached pod data alone, and the claim it creates
\* carries the daemon overhead of its pool and the cached requests of the
\* pod it popped.
CachedDataUsed ==
    /\ WithinSolve => s'.cachedPodData = s.cachedPodData
    /\ ClaimCreated =>
        /\ CreatedClaim.Pods = <<Head(q).uid>>
        /\ CreatedClaim.requests =
              Merge(s.daemonOverhead[CreatedClaim.NodePoolName],
                    s.cachedPodData[Head(q).uid].Requests)

\* C32: the pods popped so far followed by the pods still queued are the
\* pods of the input, each once and in the order of the input; Pop reports
\* the end of the queue only when every pod was handed out; the pod data is
\* there for every pod of the input when the loop starts, is not computed
\* again, and is what Add is given for the pod.
C32_QueueInInputOrder ==
    /\ [][CachedDataUsed]_vars
    /\ [](solveCalls > 0 =>
            /\ popped \o UidSeq(q) = UidSeq(allPods(input))
            /\ ~Pop(q).ok => popped = UidSeq(allPods(input))
            /\ DOMAIN s.cachedPodData = AllUids
            /\ \A uid \in AllUids :
                  s.cachedPodData[uid].Requests = PodOf(uid).requests)

\* Solve returned after pending pods and the pod of a deleting node, pods
\* that differ, were all popped; the second of them is on a claim of its own.
C32_Witness ==
    /\ SolveReturned
    /\ ctxErr = "nil"
    /\ Len(popped) = MaxPods
    /\ input.DeletingNodePods # <<>>
    /\ PodOf(1).requests # PodOf(2).requests
    /\ PodOf(1).spread # PodOf(MaxPods).spread
    /\ \E i \in 1..Len(results.NewNodeClaims) :
          /\ results.NewNodeClaims[i].Pods = <<2>>
          /\ results.NewNodeClaims[i].requests.cpu >= 2
(***************************************************************************)
(* The loop of Solve step by step: the context is checked, the pod is      *)
(* popped, add is called and its error recorded.  The context may be done  *)
(* at any of these points, also between Pop and add.                       *)
(***************************************************************************)
\* add gives up, placing nothing and reporting nothing, when the context is
\* done.
addOf_GivesUpWhenDone(sched, pod, ctx) ==
    IF ctx # "nil"
    THEN [s |-> sched, err |-> NilErrs]
    ELSE add(sched, pod, 1, NilErrs)

\* s.add(ctx, pod): the context is handed on and decides nothing.
addOf(sched, pod, ctx) == add(sched, pod, 1, NilErrs)

\* A pool with a limit before pool p2, and a pool confined to the zone that
\* already runs a spread pod.
CancelScenarios ==
    {Scenario(<<P1(("cpu" :> 2), Zones), P2>>, NoSeed, MaxReserved, "Disabled"),
     Scenario(<<P1(EmptyResourceList, {"a"})>>,
              [z \in Zones |-> IF z = "a" THEN 1 ELSE 0], MaxReserved, "Disabled")}

InitCancel ==
    /\ InitAlone
    /\ ScenarioOf \in CancelScenarios

\* The context is live at the head of the loop and Pop hands out a pod.
SolvePop ==
    /\ pc = "loop"
    /\ ctxErr = "nil"
    /\ Pop(q).ok
    /\ popped' = Append(popped, Pop(q).pod.uid)
    /\ q' = Pop(q).queue
    /\ pc' = "popped"
    /\ UNCHANGED <<cluster, input, caller, ctxErr, s, podErrors, solveCalls,
                   results, solveErr, decision, decisionErr>>
    /\ UNCHANGED <<unschedulablePodsCount, other, addCall, mock, collector>>

\* The context is done after Pop and before add.
ContextDoneAfterPop ==
    /\ pc = "popped"
    /\ ctxErr = "nil"
    /\ ctxErr' \in {"DeadlineExceeded", "Canceled"}
    /\ UNCHANGED <<cluster, input, caller, pc, s, q, podErrors, popped,
                   solveCalls, results, solveErr, decision, decisionErr>>
    /\ UNCHANGED <<unschedulablePodsCount, other, addCall, mock, collector>>

\* add is called for the popped pod and its error, if any, is recorded.
SolveAdd ==
    /\ pc = "popped"
    /\ LET pod == PodOf(popped[Len(popped)])
           r == addOf(s, pod, ctxErr)
       IN  /\ s' = r.s
           /\ podErrors' = recordPodError(podErrors, pod, r.err)
           /\ pc' = pcAfterAdd(r.err)
    /\ UNCHANGED <<cluster, input, caller, ctxErr, q, popped, solveCalls,
                   results, solveErr, decision, decisionErr>>
    /\ UNCHANGED <<unschedulablePodsCount, other, addCall, mock, collector>>

NextCancel ==
    \/ DecideNothingToSchedule
    \/ DecideSchedulerError
    \/ DecideSolve
    \/ CallSolve
    \/ DeadlineExceeded
    \/ Cancel
    \/ ContextDoneAfterPop
    \/ SolvePop
    \/ SolveAdd
    \/ SolveBreak
    \/ SolveReturn
    \/ DecideReturn

SpecCancel == InitCancel /\ [][NextCancel]_vars

\* The pod is on a claim or has an entry of podErrors.
Processed(uid) == uid \in AssignedUids(s.newNodeClaims) \cup DOMAIN podErrors

\* The loop is left with pods queued only when the context is done, and a
\* pod that was popped is next given to add, whatever the context says.
ObservedBeforePop ==
    /\ (WithinSolve /\ pc = "loop" /\ pc' = "finalize" /\ q # <<>>) => ctxErr # "nil"
    /\ (WithinSolve /\ pc = "popped" /\ pc' # "popped") =>
          /\ pc' = "loop"
          /\ ~Processed(popped[Len(popped)])
          /\ Processed(popped[Len(popped)])'

WithinLedger(sched, pool) ==
    Range(filterByRemainingResources(
              sched.nodeClaimTemplates[TemplateOf(sched, pool)].InstanceTypeOptions,
              sched.remainingResources[pool]))

\* The options of a claim the step creates are among those the ledger left
\* of its template; Add, on every template the ledger leaves an option of,
\* returns the claim with options among those it was given, whether it
\* succeeds or fails; and no claim of newNodeClaims gains an option.
OnlyNarrows ==
    /\ ClaimCreated =>
          /\ CreatedClaim.InstanceTypeOptions # <<>>
          /\ Range(CreatedClaim.InstanceTypeOptions)
                \subseteq WithinLedger(s, CreatedClaim.NodePoolName)
    /\ AddStep =>
          \A i \in 1..Len(s.nodeClaimTemplates) :
              Range(AddOnTemplate(s, i, Head(q)).nodeClaim.InstanceTypeOptions)
                  \subseteq Range(LedgerFiltered(s, i))
    /\ WithinSolve =>
          \A i \in 1..Len(s.newNodeClaims) :
              /\ Len(s'.newNodeClaims) >= i
              /\ Range(s'.newNodeClaims[i].InstanceTypeOptions)
                    \subseteq Range(s.newNodeClaims[i].InstanceTypeOptions)
              /\ Len(s'.newNodeClaims[i].InstanceTypeOptions)
                    <= Len(s.newNodeClaims[i].InstanceTypeOptions)

\* C34: a claim starts with the options of its template that the remaining
\* resources of its pool allow, Add returns it with options among those it
\* had, an option gone does not come back, and no claim of newNodeClaims, of
\* the results or of the decision is without an option; the decision's
\* claims have options among those of the scheduler's claims.
C34_OptionsOnlyNarrow ==
    /\ [][OnlyNarrows]_vars
    /\ [](\A i \in 1..Len(s.newNodeClaims) :
            s.newNodeClaims[i].InstanceTypeOptions # <<>>)
    /\ [](SolveReturned =>
            \A i \in 1..Len(results.NewNodeClaims) :
                results.NewNodeClaims[i].InstanceTypeOptions # <<>>)
    /\ [](~decision.nil =>
            \A i \in 1..Len(decision.Results.NewNodeClaims) :
                /\ decision.Results.NewNodeClaims[i].InstanceTypeOptions # <<>>
                /\ Range(decision.Results.NewNodeClaims[i].InstanceTypeOptions)
                      \subseteq Range(s.newNodeClaims[i].InstanceTypeOptions))

\* Two claims of pool p1: the first was left two options of the three of its
\* template, the second only the one the remaining resources still allowed.
C34_Witness ==
    /\ ~decision.nil
    /\ Len(s.newNodeClaims) >= 2
    /\ s.newNodeClaims[1].NodePoolName = "p1"
    /\ s.newNodeClaims[2].NodePoolName = "p1"
    /\ Len(s.newNodeClaims[1].InstanceTypeOptions) = 2
    /\ Len(s.nodeClaimTemplates[TemplateOf(s, "p1")].InstanceTypeOptions) = 3
    /\ s.newNodeClaims[2].InstanceTypeOptions = <<"r">>
(***************************************************************************)
(* The domain the topology tracker chooses                                 *)
(***************************************************************************)
\* The zones offered that the spread constraint allows, given the counts.
CompatibleZones(topology, zones) ==
    {z \in zones \cap topology.domains :
        \A y \in topology.domains :
            topology.counts[z] + 1 - topology.counts[y] <= topology.maxSkew}

\* No zone comes before z: none has a lower count, none of the same count
\* has a name before that of z.
ComesFirst(topology, ok, z) ==
    \A y \in ok :
        /\ topology.counts[z] <= topology.counts[y]
        /\ topology.counts[z] = topology.counts[y] => ZoneIndex(z) <= ZoneIndex(y)

\* C35: the tracker names a domain if and only if a zone offered is
\* compatible; the domain is a compatible zone of the lowest count and, among
\* those of that count, the first by name; no other zone is both, so that
\* the counts decide the domain.
C35_LowestCountThenName ==
    addCall.called =>
        LET ok == CompatibleZones(addCall.topology, addCall.zones)
        IN  /\ addCall.domain = "" <=> ok = {}
            /\ ok # {} =>
                  /\ addCall.domain \in ok
                  /\ ComesFirst(addCall.topology, ok, addCall.domain)
                  /\ \A z \in ok :
                        ComesFirst(addCall.topology, ok, z) => z = addCall.domain

\* Both zones are compatible and the zone that comes first by name holds
\* more pods: the tracker chose the other.
C35_Witness ==
    /\ addCall.called
    /\ CompatibleZones(addCall.topology, addCall.zones) = Zones
    /\ addCall.topology.counts["a"] > addCall.topology.counts["b"]
    /\ addCall.domain = "b"
(***************************************************************************)
(* The reserved-offering mode                                              *)
(***************************************************************************)
\* The mode the caller chose.
ConfiguredMode == input.SchedulerOptions.reservedOfferingMode

\* No reserved offering has a unit left.
ReservationsExhausted(sched) ==
    \A it \in ReservedTypes : sched.reservationManager[it] = 0

\* A new claim of template i, left the on-demand options only, takes the pod
\* when the reservations are not looked at.
OnDemandAccepts(sched, i, pod) ==
    LET pool == sched.nodeClaimTemplates[i].NodePoolName
        onDemand == SelectSeq(LedgerFiltered(sched, i),
                              LAMBDA it : it \notin ReservedTypes)
    IN  NodeClaimAdd(NewNodeClaim(sched.nodeClaimTemplates[i],
                                  sched.daemonOverhead[pool],
                                  sched.daemonHostPortUsage[pool], onDemand),
                     pod, sched.cachedPodData[pod.uid], sched.topology,
                     sched.reservationManager, "Disabled").err = "nil"

\* The scheduler of the invocation, had the cluster n reserved units.
SchedulerReserving(n) ==
    [NewAltScheduler(OrderByWeight(cluster.nodePools),
                     NewTopology(cluster.nodePools, cluster.topologySeed),
                     instanceTypesOf(cluster.nodePools), n, DaemonSetPods,
                     input.SchedulerOptions)
     EXCEPT !.uuid = 1]

\* Strict: a claim is created only on reserved offerings that had a unit,
\* which it takes; with no unit left no claim is created and the pod has its
\* error.
StrictStep ==
    (AddStep /\ ConfiguredMode = "Strict") =>
        /\ ClaimCreated =>
              /\ CreatedClaim.reserved # {}
              /\ Range(CreatedClaim.InstanceTypeOptions) = CreatedClaim.reserved
              /\ \A it \in CreatedClaim.reserved :
                    /\ s.reservationManager[it] > 0
                    /\ s'.reservationManager[it] = s.reservationManager[it] - 1
        /\ ReservationsExhausted(s) =>
              /\ ~ClaimCreated
              /\ Head(q).uid \in DOMAIN podErrors'

\* BestEffort: with no unit left, a claim is created exactly when some
\* template takes the pod on its on-demand options; it has these options
\* only and holds no reservation.
BestEffortStep ==
    (AddStep /\ ConfiguredMode = "BestEffort" /\ ReservationsExhausted(s)) =>
        /\ ClaimCreated <=>
              \E i \in 1..Len(s.nodeClaimTemplates) : OnDemandAccepts(s, i, Head(q))
        /\ ClaimCreated =>
              /\ CreatedClaim.reserved = {}
              /\ Range(CreatedClaim.InstanceTypeOptions) \cap ReservedTypes = {}
              /\ s'.reservationManager = s.reservationManager

\* C36: under Strict every claim holds a reserved offering that was granted
\* and an attempt without one fails; under BestEffort an exhausted
\* reservation is never an error of its own and the pod gets a claim on the
\* on-demand options whenever these take it; under Disabled no claim holds a
\* reservation, the reservations stay as they were and what Solve returns is
\* what it returns with any other number of reserved units.
C36_ModeGoverns ==
    /\ [][StrictStep]_vars
    /\ [][BestEffortStep]_vars
    /\ [](ConfiguredMode = "Strict" =>
            \A i \in 1..Len(s.newNodeClaims) : s.newNodeClaims[i].reserved # {})
    /\ [](ConfiguredMode = "BestEffort" =>
            \A uid \in DOMAIN podErrors : ~IsReservedOfferingError(podErrors[uid]))
    /\ []((ConfiguredMode = "Disabled" /\ solveCalls > 0) =>
            /\ \A i \in 1..Len(s.newNodeClaims) : s.newNodeClaims[i].reserved = {}
            /\ s.reservationManager = NewReservationManager(cluster.reservedCapacity))
    /\ []((ConfiguredMode = "Disabled" /\ SolveReturned) =>
            \A n \in 0..MaxReserved :
                results = SolveAlone(SchedulerReserving(n),
                                     SubSeq(allPods(input), 1, Len(popped))))

\* BestEffort with one reserved unit: the first claim took it, the second is
\* a claim on on-demand options.
C36_Witness ==
    /\ SolveReturned
    /\ ConfiguredMode = "BestEffort"
    /\ cluster.reservedCapacity = MaxReserved
    /\ Len(results.NewNodeClaims) >= 2
    /\ results.NewNodeClaims[1].reserved # {}
    /\ results.NewNodeClaims[Len(results.NewNodeClaims)].reserved = {}
    /\ DOMAIN results.PodErrors = {}
(***************************************************************************)
(* The reserved-offering error                                             *)
(***************************************************************************)
\* A new claim of template i, left the reserved options only, would take
\* the pod were the reservations not looked at: the pod is compatible with
\* a reserved offering of the pool.
CompatibleWithReserved(sched, i, pod) ==
    LET pool == sched.nodeClaimTemplates[i].NodePoolName
        reserved == SelectSeq(LedgerFiltered(sched, i),
                              LAMBDA it : it \in ReservedTypes)
    IN  NodeClaimAdd(NewNodeClaim(sched.nodeClaimTemplates[i],
                                  sched.daemonOverhead[pool],
                                  sched.daemonHostPortUsage[pool], reserved),
                     pod, sched.cachedPodData[pod.uid], sched.topology,
                     sched.reservationManager, "Disabled").err = "nil"

\* The causes of an error that are of the kind.
CausesOf(err, kind) == {i \in 1..Len(err) : err[i].kind = kind}

\* The fallback is disabled, no reserved unit is left and the pod is
\* compatible with a reserved offering of some pool: no claim is created,
\* the error of the pod ends with its one reserved-offering cause, and has no
\* incompatibility cause for a pool the pod is compatible with.
DeferredStep ==
    (/\ AddStep
     /\ ConfiguredMode = "Strict"
     /\ ReservationsExhausted(s)
     /\ \E i \in 1..Len(s.nodeClaimTemplates) : CompatibleWithReserved(s, i, Head(q))) =>
        /\ ~ClaimCreated
        /\ Head(q).uid \in DOMAIN podErrors'
        /\ LET err == podErrors'[Head(q).uid]
           IN  /\ CausesOf(err, "ReservedOffering") = {Len(err)}
               /\ \A i \in 1..Len(s.nodeClaimTemplates) :
                     CompatibleWithReserved(s, i, Head(q)) =>
                         \A k \in CausesOf(err, "Incompatible") :
                             err[k].pool # s.nodeClaimTemplates[i].NodePoolName

\* The pods whose error has a reserved-offering cause.
Deferred(errors) ==
    {uid \in DOMAIN errors : CausesOf(errors[uid], "ReservedOffering") # {}}

\* C37: with the fallback disabled, a pod compatible with a pool whose
\* reserved offering is exhausted fails with the reserved-offering error of
\* that attempt, not with an incompatibility with that pool; the error stays
\* as recorded; the decision lists the pod among its reserved-offering
\* errors, and the gauge of unschedulable pods does not count it.
C37_DeferredNotUnschedulable ==
    /\ [][DeferredStep]_vars
    /\ [][WithinSolve =>
            \A uid \in DOMAIN podErrors :
                uid \in DOMAIN podErrors' /\ podErrors'[uid] = podErrors[uid]]_vars
    /\ []((~decision.nil /\ solveCalls > 0) =>
            /\ decision.Results.PodErrors = podErrors
            /\ ReservedOfferingErrors(decision.Results) = Deferred(podErrors))
    /\ []((pc = "handled" /\ solveCalls > 0) =>
            unschedulablePodsCount.value
                = Cardinality(DOMAIN podErrors \ Deferred(podErrors)))

\* The decision was handled: pool p1 had nothing left and pool p2 no
\* reserved unit for the one pod that failed, and the gauge counts no pod.
C37_Witness ==
    /\ pc = "handled"
    /\ ConfiguredMode = "Strict"
    /\ \E uid \in DOMAIN podErrors :
          /\ Len(podErrors[uid]) = 2
          /\ podErrors[uid][1].kind = "LimitExceeded"
          /\ podErrors[uid][2] = ReservedOfferingErr("p2")
          /\ ReservedOfferingErrors(decision.Results) = {uid}
    /\ Len(decision.Results.NewNodeClaims) = 1
    /\ unschedulablePodsCount.value = 0
(***************************************************************************)
(* The reserved units                                                      *)
(***************************************************************************)
\* The claims that hold a reservation on the offering.
Holders(claims, it) == {i \in 1..Len(claims) : it \in claims[i].reserved}

\* A unit is taken only by a claim the step creates, one unit for each
\* offering the claim reserves, and only from an offering that had one.
GrantedWhileUnitsRemain ==
    WithinSolve =>
        \A it \in ReservedTypes :
            /\ s'.reservationManager[it] >= s.reservationManager[it] - 1
            /\ s'.reservationManager[it] <= s.reservationManager[it]
            /\ s'.reservationManager[it] < s.reservationManager[it] <=>
                  (ClaimCreated /\ it \in CreatedClaim.reserved)
            /\ (ClaimCreated /\ it \in CreatedClaim.reserved) =>
                  s.reservationManager[it] > 0

\* C38: at every point of a Solve the claims that hold a reservation on an
\* offering are no more than the units the offering had when the Solve
\* began, and no offering has fewer than no unit left; a unit is granted
\* only while one remains; the same bound holds of the claims returned.
C38_NeverOverCommitted ==
    /\ [][GrantedWhileUnitsRemain]_vars
    /\ [](solveCalls > 0 =>
            \A it \in ReservedTypes :
                /\ Cardinality(Holders(s.newNodeClaims, it)) <= cluster.reservedCapacity
                /\ s.reservationManager[it] >= 0
                /\ s.reservationManager[it] <= cluster.reservedCapacity)
    /\ [](SolveReturned =>
            \A it \in ReservedTypes :
                Cardinality(Holders(results.NewNodeClaims, it))
                    <= cluster.reservedCapacity)

\* Every reserved unit is held by a claim, and a pod that came later was
\* refused one.
C38_Witness ==
    /\ SolveReturned
    /\ ConfiguredMode = "Strict"
    /\ cluster.reservedCapacity = MaxReserved
    /\ \A it \in ReservedTypes :
          Cardinality(Holders(results.NewNodeClaims, it)) = MaxReserved
    /\ \E uid \in DOMAIN results.PodErrors :
          IsReservedOfferingError(results.PodErrors[uid])
(***************************************************************************)
(* What ComputeSchedulingDecision returns                                  *)
(***************************************************************************)
\* ComputeSchedulingDecision has returned.
DecisionReturned ==
    caller = "ComputeSchedulingDecision" /\ pc \in {"done", "handled"}

\* The scheduler could not be created, and not for want of node pools.
ConstructionFailed ==
    /\ solveCalls = 0
    /\ ~nothingToSchedule(allPods(input))
    /\ ~NodePoolsNotFound(cluster.nodePools)
    /\ decisionErr = "creating scheduler"

\* Solve failed, and not because the deadline expired.
SolveFailed ==
    /\ solveCalls > 0
    /\ solveErr \notin {"nil", "DeadlineExceeded"}
    /\ decisionErr = solveErr

\* C39: every return of ComputeSchedulingDecision gives a decision or an
\* error, never both and never neither; the error is the failure to create
\* the scheduler for another reason than missing node pools, or the error
\* of Solve when it is not the deadline's; a decision with NoNodePoolsFound
\* has empty results.
C39_DecisionOrError ==
    DecisionReturned =>
        /\ decision.nil <=> decisionErr # "nil"
        /\ decisionErr # "nil" => (ConstructionFailed \/ SolveFailed)
        /\ (~decision.nil /\ decision.NoNodePoolsFound) =>
              decision.Results = NoResults

\* Solve placed a pod on a claim and was cancelled: the error is returned
\* and no decision with it.
C39_Witness ==
    /\ DecisionReturned
    /\ SolveFailed
    /\ decision.nil
    /\ Len(results.NewNodeClaims) > 0
(***************************************************************************)
(* Start and Stop of the SnapshotCollector                                 *)
(***************************************************************************)
\* The periodic goroutines that have not returned.
AlivePeriodic ==
    {g \in DOMAIN collector.goroutines : collector.goroutines[g] = "select"}

\* No call of Start or Stop is under way.
BetweenCalls == \A c \in CollectorCallers : collector.pc[c] = "idle"

\* close(stopCh) never found the channel closed.
StopNeverPanics == ~collector.panicked

\* No two periodic goroutines are alive together.
OnePeriodicAtMost == Cardinality(AlivePeriodic) <= 1

\* Marked running, between calls and with a live context, the collector
\* has a periodic goroutine.
RunningMeansCollecting ==
    (collector.running /\ BetweenCalls /\ ~collector.ctxDone) =>
        AlivePeriodic # {}

\* C40: over every sequence and interleaving of Start and Stop, the stop
\* channel is closed at most once and Stop never panics, at most one
\* periodic goroutine is alive at a time, and a collector marked running
\* has a periodic goroutine that collects.
C40_StartStopSafe ==
    /\ StopNeverPanics
    /\ OnePeriodicAtMost
    /\ RunningMeansCollecting

====
